---- MODULE Spec2Model ----
(***************************************************************************)
(* A model of the redder key/value server: the command dispatcher and the *)
(* connection driver of connection.rs over the dataset and the locks of   *)
(* database.rs.                                                            *)
(*                                                                         *)
(* Byte strings are sequences of byte values (ASCII codes).  HashMaps are  *)
(* sets of <<key, value>> pairs with at most one pair per key.  Several    *)
(* connections run their driver loops against one Database; every step of *)
(* a driver between two suspension points or lock operations is one action.*)
(***************************************************************************)
EXTENDS Integers, Sequences, FiniteSets, TLC

(* ------------------------------ bounds -------------------------------- *)

\* Requests read over all connections together.
MaxReq == 3
\* The tokens handed to parse_args, at most.
MaxArgs == 4
\* The wall clock runs from 0 to MaxTime.
MaxTime == 2

\* The reads the transport cuts a byte stream into, at most.
MaxChunks == 2

\* Two connections on one Database: enough for one to act between any two
\* steps of the other.
Conns == {1, 2}

(* --------------------------- byte strings ------------------------------ *)

tok_ping   == <<112, 105, 110, 103>>
tok_echo   == <<101, 99, 104, 111>>
tok_get    == <<103, 101, 116>>
tok_set    == <<115, 101, 116>>
tok_keys   == <<107, 101, 121, 115>>
tok_config == <<99, 111, 110, 102, 105, 103>>
tok_px     == <<112, 120>>
tok_star   == <<42>>
tok_PONG   == <<80, 79, 78, 71>>
tok_OK     == <<79, 75>>
tok_dir    == <<100, 105, 114>>
tok_data   == <<47, 100>>

\* Option<T>: None and Some(v); `dflt` only fills the unused field of None.
None(dflt) == [some |-> FALSE, v |-> dflt]
Some(x) == [some |-> TRUE, v |-> x]
NoneB == None(<<>>)
NoneI == None(0)

\* char::to_lowercase on the ASCII range.
lower(ch) == IF ch >= 65 /\ ch <= 90 THEN ch + 32 ELSE ch
upper(ch) == IF ch >= 97 /\ ch <= 122 THEN ch - 32 ELSE ch

\* String::from_utf8_lossy(&arg).to_lowercase() on ASCII bytes.
to_lowercase(tok) == [i \in 1..Len(tok) |-> lower(tok[i])]

to_uppercase(tok) == [i \in 1..Len(tok) |-> upper(tok[i])]

\* str::parse::<u64>() of a byte string: an optional '+', then one or more
\* decimal digits (the strings of the model are far too short to overflow).
IsDigit(ch) == ch >= 48 /\ ch <= 57

RECURSIVE DigitsValue(_, _)
DigitsValue(tok, acc) ==
    IF tok = <<>> THEN acc
    ELSE DigitsValue(Tail(tok), 10 * acc + (Head(tok) - 48))

AllDigits(tok) == tok # <<>> /\ \A i \in 1..Len(tok) : IsDigit(tok[i])

\* (a parse that takes what is no number for 0)
parse_u64_lenient(tok) ==
    LET body == IF tok # <<>> /\ Head(tok) = 43 THEN Tail(tok) ELSE tok
    IN  IF AllDigits(body) THEN Some(DigitsValue(body, 0)) ELSE Some(0)

parse_u64(tok) ==
    LET body == IF tok # <<>> /\ Head(tok) = 43 THEN Tail(tok) ELSE tok
    IN  IF AllDigits(body) THEN Some(DigitsValue(body, 0)) ELSE NoneI

(* ------------------------- HashMap as pair set ------------------------- *)

MapKeys(m) == {p[1] : p \in m}
MapHas(m, k) == \E p \in m : p[1] = k
MapGet(m, k) ==
    IF MapHas(m, k) THEN (CHOOSE p \in m : p[1] = k)[2] ELSE <<>>
MapInsert(m, k, x) == {p \in m : p[1] # k} \cup {<<k, x>>}
MapRemove(m, k) == {p \in m : p[1] # k}

(* ------------------------------ Dataset -------------------------------- *)
\* A dataset is [data |-> map key -> value, expiry |-> map key -> instant].

Dataset_new == [data |-> {}, expiry |-> {}]

\* (a get that takes the key for expired from the instant of its expiry on)
Dataset_get_inclusive(ds, key, t) ==
    IF MapHas(ds.expiry, key) /\ MapGet(ds.expiry, key) <= t
    THEN NoneB
    ELSE IF MapHas(ds.data, key) THEN Some(MapGet(ds.data, key)) ELSE NoneB

\* Dataset::get: None when an expiry is recorded and lies before `t`.
Dataset_get(ds, key, t) ==
    IF MapHas(ds.expiry, key) /\ MapGet(ds.expiry, key) < t
    THEN NoneB
    ELSE IF MapHas(ds.data, key) THEN Some(MapGet(ds.data, key)) ELSE NoneB

Dataset_set(ds, key, value) ==
    [ds EXCEPT !.data = MapInsert(ds.data, key, value)]

Dataset_set_expiry(ds, key, instant) ==
    [ds EXCEPT !.expiry = MapInsert(ds.expiry, key, instant)]

Dataset_unset_expiry(ds, key) ==
    [ds EXCEPT !.expiry = MapRemove(ds.expiry, key)]

\* Dataset::all_keys: the keys of data, in the HashMap's iteration order,
\* which is any order.
Permutations_of(ks) ==
    LET n == Cardinality(ks)
    IN  {s \in [1..n -> ks] : \A i, j \in 1..n : i # j => s[i] # s[j]}

\* (an all_keys that walks the expiry map instead of data)
Dataset_all_keys_of_expiry(ds) == Permutations_of(MapKeys(ds.expiry))

Dataset_all_keys(ds) == Permutations_of(MapKeys(ds.data))

(* --------------------------- command specs ----------------------------- *)
\* CmdSpec: leading_argc, named_arg_argc (a map name -> count) and the handler.
\* CmdListItem: Spec(spec) or SubSpecs(map); `sub` is empty for a Spec.

CmdSpec_new(handler) ==
    [kind |-> "Spec", leading_argc |-> 0, named_arg_argc |-> {},
     handler |-> handler, sub |-> {}]

leading(spec, count) == [spec EXCEPT !.leading_argc = count]

named(spec, name, count) ==
    [spec EXCEPT !.named_arg_argc = MapInsert(@, name, count)]

SubSpecs(specs) ==
    [kind |-> "SubSpecs", leading_argc |-> 0, named_arg_argc |-> {},
     handler |-> "", sub |-> specs]

create_command_specs ==
    { <<tok_ping, CmdSpec_new("handle_ping")>>,
      <<tok_echo, leading(CmdSpec_new("handle_echo"), 1)>>,
      <<tok_get, leading(CmdSpec_new("handle_get"), 1)>>,
      <<tok_set, named(leading(CmdSpec_new("handle_set"), 2), tok_px, 1)>>,
      <<tok_keys, leading(CmdSpec_new("handle_keys"), 1)>>,
      <<tok_config,
        SubSpecs({<<tok_get, leading(CmdSpec_new("handle_config_get"), 1)>>})>> }

\* The walk of the spec tree in handle_connection: the result is the Spec
\* found and the tokens left, or the error that ends the driver.
WalkResult(err, spec, rest) == [err |-> err, spec |-> spec, rest |-> rest]

NoSpec == CmdSpec_new("")

\* (a walk that looks the token up as it is spelled)
RECURSIVE find_spec_exact(_, _)
find_spec_exact(map, command) ==
    IF command = <<>>
    THEN WalkResult("Unexpected end of command", NoSpec, <<>>)
    ELSE LET arg == Head(command)
         IN  IF ~MapHas(map, arg)
             THEN WalkResult("Unknown command", NoSpec, <<>>)
             ELSE LET item == MapGet(map, arg)
                  IN  IF item.kind = "Spec"
                      THEN WalkResult("", item, Tail(command))
                      ELSE find_spec_exact(item.sub, Tail(command))

RECURSIVE find_spec(_, _)
find_spec(map, command) ==
    IF command = <<>>
    THEN WalkResult("Unexpected end of command", NoSpec, <<>>)
    ELSE LET arg == Head(command)
             lowercase == to_lowercase(arg)
         IN  IF ~MapHas(map, lowercase)
             THEN WalkResult("Unknown command", NoSpec, <<>>)
             ELSE LET item == MapGet(map, lowercase)
                  IN  IF item.kind = "Spec"
                      THEN WalkResult("", item, Tail(command))
                      ELSE find_spec(item.sub, Tail(command))

\* parse_args: ParsedArgs {args, named_args} or an error.
ParsedArgs(err, args, named_args) ==
    [err |-> err, args |-> args, named_args |-> named_args]

Drain(s, n) == SubSeq(s, 1, n)
AfterDrain(s, n) == SubSeq(s, n + 1, Len(s))

\* (a scan that compares the names as they are spelled)
RECURSIVE parse_named_exact(_, _, _, _)
parse_named_exact(named_arg_argc, args, named_args, unparsed_args) ==
    IF unparsed_args = <<>>
    THEN ParsedArgs("", args, named_args)
    ELSE LET arg == Head(unparsed_args)
             rest == Tail(unparsed_args)
         IN  IF MapHas(named_arg_argc, arg)
             THEN LET argc == MapGet(named_arg_argc, arg)
                  IN  IF argc > Len(rest)
                      THEN ParsedArgs("Missing value for named argument",
                                      <<>>, {})
                      ELSE parse_named_exact(named_arg_argc, args,
                               MapInsert(named_args, arg, Drain(rest, argc)),
                               AfterDrain(rest, argc))
             ELSE parse_named_exact(named_arg_argc, Append(args, arg),
                                    named_args, rest)

\* The loop of parse_args after the leading arguments are taken.
RECURSIVE parse_named(_, _, _, _)
parse_named(named_arg_argc, args, named_args, unparsed_args) ==
    IF unparsed_args = <<>>
    THEN ParsedArgs("", args, named_args)
    ELSE LET arg == Head(unparsed_args)
             rest == Tail(unparsed_args)
             lowercase == to_lowercase(arg)
         IN  IF MapHas(named_arg_argc, lowercase)
             THEN LET argc == MapGet(named_arg_argc, lowercase)
                  IN  IF argc > Len(rest)
                      THEN ParsedArgs("Missing value for named argument",
                                      <<>>, {})
                      ELSE parse_named(named_arg_argc, args,
                               MapInsert(named_args, lowercase, Drain(rest, argc)),
                               AfterDrain(rest, argc))
             ELSE parse_named(named_arg_argc, Append(args, arg), named_args, rest)

parse_args(leading_argc, named_arg_argc, unparsed_args) ==
    IF Len(unparsed_args) < leading_argc
    THEN ParsedArgs("Not enough arguments", <<>>, {})
    ELSE parse_named(named_arg_argc, Drain(unparsed_args, leading_argc), {},
                     AfterDrain(unparsed_args, leading_argc))

(* ------------------------------- locks -------------------------------- *)
\* std::sync::RwLock: any number of readers or one writer (0: no writer).

RwLock_new == [readers |-> {}, writer |-> 0]

\* (a reader that does not wait for the writer)
can_read_while_written(l) == TRUE

can_read(l) == l.writer = 0
can_write(l) == l.writer = 0 /\ l.readers = {}

RwLock_read(l, c) == [l EXCEPT !.readers = @ \cup {c}]
RwLock_write(l, c) == [l EXCEPT !.writer = c]

\* (a guard that lives on after the block)
drop_read_guard_late(l, c) == l

\* The guard goes out of scope at the end of the handler's block.
drop_read_guard(l, c) == [l EXCEPT !.readers = @ \ {c}]
drop_write_guard(l, c) == [l EXCEPT !.writer = 0]

holds(l, c) == c \in l.readers \/ l.writer = c

(* ------------------------------ replies -------------------------------- *)
\* One element per write_* call on the stream.

SimpleString(s) == [t |-> "simple", s |-> s, n |-> 0]
BulkString(s) == [t |-> "bulk", s |-> s, n |-> 0]
NullBulkString == [t |-> "null", s |-> <<>>, n |-> 0]
ArrayHeader(n) == [t |-> "array", s |-> <<>>, n |-> n]

write_simple_string(s) == SimpleString(s)
write_bulk_string(s) == BulkString(s)
write_bulk_string_opt(opt) == IF opt.some THEN BulkString(opt.v) ELSE NullBulkString
write_array(n) == ArrayHeader(n)

\* The bulk strings handle_keys writes after the array header.
write_keys(keys) == [i \in 1..Len(keys) |-> write_bulk_string(keys[i])]

(* ------------------------------ handlers ------------------------------- *)
\* The part of a handler that runs before its first lock or write: the error
\* it returns, or where it goes on (pc), its locals and the writes it queues.

Started(pc, key, value, expiry, wq) ==
    [err |-> "", pc |-> pc, key |-> key, value |-> value, expiry |-> expiry,
     wq |-> wq]

Failed(err) ==
    [err |-> err, pc |-> "closed", key |-> <<>>, value |-> <<>>,
     expiry |-> NoneI, wq |-> <<>>]

\* (a handler that returns Ok without a reply)
handle_ping_silent(command) ==
    Started("write", <<>>, <<>>, NoneI, <<>>)

handle_ping(command) ==
    Started("write", <<>>, <<>>, NoneI, <<write_simple_string(tok_PONG)>>)

handle_echo(command) ==
    Started("write", <<>>, <<>>, NoneI, <<write_bulk_string(command.args[1])>>)

handle_get(command) ==
    Started("get_lock", command.args[1], <<>>, NoneI, <<>>)

handle_set(command, instant_now) ==
    LET key == command.args[1]
        value == command.args[2]
    IN  IF MapHas(command.named_args, tok_px)
        THEN LET px == parse_u64(MapGet(command.named_args, tok_px)[1])
             IN  IF px.some
                 THEN Started("set_lock", key, value, Some(instant_now + px.v), <<>>)
                 ELSE Failed("invalid digit found in string")
        ELSE Started("set_lock", key, value, NoneI, <<>>)

handle_keys(command) ==
    IF command.args[1] # tok_star
    THEN Failed("Unsupported pattern")
    ELSE Started("keys_lock", <<>>, <<>>, NoneI, <<>>)

handle_config_get(command) ==
    Started("config_lock", command.args[1], <<>>, NoneI, <<>>)

call_handler(handler, command, instant_now) ==
    CASE handler = "handle_ping" -> handle_ping(command)
      [] handler = "handle_echo" -> handle_echo(command)
      [] handler = "handle_get" -> handle_get(command)
      [] handler = "handle_set" -> handle_set(command, instant_now)
      [] handler = "handle_keys" -> handle_keys(command)
      [] handler = "handle_config_get" -> handle_config_get(command)

\* One pass of the driver loop after the request is read: walk, parse, and
\* the start of the handler.  `handler` names the handler that was reached.
dispatch(specs, command, instant_now) ==
    LET found == find_spec(specs, command)
    IN  IF found.err # ""
        THEN [handler |-> ""] @@ Failed(found.err)
        ELSE LET parsed_args == parse_args(found.spec.leading_argc,
                                           found.spec.named_arg_argc, found.rest)
             IN  IF parsed_args.err # ""
                 THEN [handler |-> found.spec.handler] @@ Failed(parsed_args.err)
                 ELSE [handler |-> found.spec.handler]
                      @@ call_handler(found.spec.handler, parsed_args, instant_now)

\* Database::get_config: a lookup of the key's bytes as they are.
Database_get_config(cfg, key) ==
    IF MapHas(cfg, key) THEN Some(MapGet(cfg, key)) ELSE NoneB

\* What each handler writes once it holds what it read under its lock.
get_reply(ds, key, t) == <<write_bulk_string_opt(Dataset_get(ds, key, t))>>

set_reply == <<write_simple_string(tok_OK)>>

keys_reply(keys) == <<write_array(Len(keys))>> \o write_keys(keys)

config_get_reply(cfg, key) ==
    <<write_array(2), write_bulk_string(key),
      write_bulk_string_opt(Database_get_config(cfg, key))>>

\* (a SET that leaves the expiry alone when no PX is given)
set_locked_expiry_keep(ds, key, expiry) ==
    IF expiry.some THEN Dataset_set_expiry(ds, key, expiry.v) ELSE ds

\* handle_set's two statements under the writer lock.
set_locked_expiry(ds, key, expiry) ==
    IF expiry.some THEN Dataset_set_expiry(ds, key, expiry.v)
                   ELSE Dataset_unset_expiry(ds, key)

\* (a SET that stores the expiry and no value)
set_locked_value_skip(ds, key, value) == ds

set_locked_value(ds, key, value) == Dataset_set(ds, key, value)

(* ------------------------------ requests ------------------------------- *)
\* The requests a client sends: every command with correct and with faulty
\* arguments, in several spellings.

key_k == <<107>>
key_q == <<113>>
val_v == <<118>>
val_w == <<119>>
tok_1 == <<49>>
tok_2 == <<50>>
tok_a == <<97>>
tok_foo == <<102, 111, 111>>

capitalize(tok) == [i \in 1..Len(tok) |-> IF i = 1 THEN upper(tok[i]) ELSE tok[i]]
Spellings(tok) == {tok, to_uppercase(tok), capitalize(tok)}

KeySet == {key_k, key_q}
ValueSet == {val_v, val_w}

GoodRequests ==
    {<<p>> : p \in Spellings(tok_ping)}
    \cup {<<tok_ping, val_v>>, <<tok_echo, val_v>>}
    \cup {<<g, k>> : g \in {tok_get, to_uppercase(tok_get)}, k \in KeySet}
    \cup {<<tok_get, key_k, val_v>>}
    \cup {<<tok_set, key_k, x>> : x \in ValueSet} \cup {<<tok_set, key_q, val_w>>}
    \cup {<<tok_set, key_k, val_v, p, t>> :
              p \in Spellings(tok_px), t \in {tok_1, tok_2}}
    \cup {<<k, tok_star>> : k \in Spellings(tok_keys)}
    \cup {<<tok_config, tok_get, tok_dir>>,
          <<to_uppercase(tok_config), capitalize(tok_get), to_uppercase(tok_dir)>>,
          <<tok_config, tok_get, to_uppercase(tok_dir)>>}

BadRequests ==
    { <<>>, <<tok_foo>>, <<tok_config>>, <<tok_config, tok_set, tok_dir>>,
      <<tok_config, tok_get>>, <<tok_echo>>, <<tok_get>>, <<tok_set, key_k>>,
      <<tok_keys>>, <<tok_keys, key_k>>,
      <<tok_set, key_k, val_v, tok_px>>,
      <<tok_set, key_k, val_v, to_uppercase(tok_px), tok_a>> }

Requests == GoodRequests \cup BadRequests

(* -------------------------- buffered readers --------------------------- *)
\* buf_reader.rs.  A reader is its buffer and the reads the file or socket
\* will still answer, each with a chunk of at least one byte; when none is
\* left the read returns 0 bytes.  Results are [err, v, r]: the error (""
\* for Ok), the value and the reader afterwards.

Reader(buffer, chunks) == [buffer |-> buffer, chunks |-> chunks]

Ok(v, r) == [err |-> "", v |-> v, r |-> r]
Err(e, dflt, r) == [err |-> e, v |-> dflt, r |-> r]

\* res? followed by the rest of the function: an error returns at once.
Try(res, dflt, rest(_)) ==
    IF res.err # "" THEN Err(res.err, dflt, res.r) ELSE rest(res)

Max(a, b) == IF a >= b THEN a ELSE b

\* inner.read(self.buffer.split_off(0)): the whole buffer, contents
\* included, is handed to the runtime's read, which writes the n bytes it
\* got from the buffer's first byte on and raises the buffer's length to n
\* when it was shorter.
stream_read(buffer, chunk) ==
    [i \in 1..Max(Len(buffer), Len(chunk)) |->
        IF i <= Len(chunk) THEN chunk[i] ELSE buffer[i]]

\* The count read, and the reader afterwards.
try_fill_buf(r) ==
    IF r.chunks = <<>>
    THEN Ok(0, r)
    ELSE Ok(Len(Head(r.chunks)),
            Reader(stream_read(r.buffer, Head(r.chunks)), Tail(r.chunks)))

fill_buf(r) ==
    Try(try_fill_buf(r), 0,
        LAMBDA n : IF n.v = 0 THEN Err("UnexpectedEof", 0, n.r) ELSE n)

\* Buf::advance / BytesMut::split_to: the buffer without its first n bytes.
advance(r, n) == Reader(SubSeq(r.buffer, n + 1, Len(r.buffer)), r.chunks)

\* while self.buffer().len() < len { self.fill_buf().await?; }
RECURSIVE fill_until(_, _)
fill_until(r, len) ==
    IF Len(r.buffer) < len
    THEN Try(fill_buf(r), 0, LAMBDA f : fill_until(f.r, len))
    ELSE Ok(0, r)

read_bytes(r, len) ==
    Try(fill_until(r, len), <<>>,
        LAMBDA f : Ok(SubSeq(f.r.buffer, 1, len), advance(f.r, len)))

read_u8(r) ==
    Try(IF r.buffer = <<>> THEN fill_buf(r) ELSE Ok(0, r), 0,
        LAMBDA f : Ok(f.r.buffer[1], advance(f.r, 1)))

\* Unsigned integers wider than 16 bits are kept as their 16-bit words,
\* least significant first: a u32 is <<w0, w1>>, a u64 <<w0, w1, w2, w3>>.
get_le_words(bytes) ==
    [i \in 1..(Len(bytes) \div 2) |-> bytes[2 * i - 1] + 256 * bytes[2 * i]]

read_u16(r) ==
    Try(fill_until(r, 2), 0,
        LAMBDA f : Ok(f.r.buffer[1] + 256 * f.r.buffer[2], advance(f.r, 2)))

read_u32(r) ==
    Try(fill_until(r, 4), <<0, 0>>,
        LAMBDA f : Ok(get_le_words(SubSeq(f.r.buffer, 1, 4)), advance(f.r, 4)))

read_u64(r) ==
    Try(fill_until(r, 8), <<0, 0, 0, 0>>,
        LAMBDA f : Ok(get_le_words(SubSeq(f.r.buffer, 1, 8)), advance(f.r, 8)))

\* buffer.windows(delimeter.len()).position(|bytes| bytes == delimeter):
\* the first index (from 0) at which the delimiter lies in the buffer, or -1.
position(buffer, delimeter) ==
    LET hits == {p \in 0..(Len(buffer) - Len(delimeter)) :
                    SubSeq(buffer, p + 1, p + Len(delimeter)) = delimeter}
    IN  IF hits = {} THEN -1
        ELSE CHOOSE p \in hits : \A q \in hits : p <= q

\* The loop of read_until, line holding what earlier passes took.
RECURSIVE read_until_from(_, _, _)
read_until_from(r, delimeter, line) ==
    LET pos == position(r.buffer, delimeter)
    IN  IF pos >= 0
        THEN Ok(line \o SubSeq(r.buffer, 1, pos + Len(delimeter)),
                advance(r, pos + Len(delimeter)))
        ELSE Try(fill_buf(Reader(<<>>, r.chunks)), <<>>,
                 LAMBDA f : read_until_from(f.r, delimeter, line \o r.buffer))

read_until(r, delimeter) == read_until_from(r, delimeter, <<>>)

(* ------------------------------- RESP ---------------------------------- *)
\* protocol.rs.  RedisBufStream keeps a buffer of its own over the socket
\* and fills it the way the buffered readers do.

CR == 13
LF == 10
CRLF == <<CR, LF>>

\* A continuation byte of UTF-8.
IsCont(b) == b >= 128 /\ b <= 191

\* String::from_utf8 accepts the bytes.
RECURSIVE is_utf8(_)
is_utf8(bytes) ==
    IF bytes = <<>> THEN TRUE
    ELSE LET b == bytes[1]
             n == Len(bytes)
         IN  CASE b <= 127 -> is_utf8(Tail(bytes))
               [] b >= 194 /\ b <= 223 ->
                    n >= 2 /\ IsCont(bytes[2])
                    /\ is_utf8(SubSeq(bytes, 3, n))
               [] b >= 224 /\ b <= 239 ->
                    n >= 3 /\ IsCont(bytes[2]) /\ IsCont(bytes[3])
                    /\ (b = 224 => bytes[2] >= 160)
                    /\ (b = 237 => bytes[2] <= 159)
                    /\ is_utf8(SubSeq(bytes, 4, n))
               [] b >= 240 /\ b <= 244 ->
                    n >= 4 /\ IsCont(bytes[2]) /\ IsCont(bytes[3])
                    /\ IsCont(bytes[4])
                    /\ (b = 240 => bytes[2] >= 144)
                    /\ (b = 244 => bytes[2] <= 143)
                    /\ is_utf8(SubSeq(bytes, 5, n))
               [] OTHER -> FALSE

\* String::from_utf8(line.into()), an error being InvalidData.
from_utf8(line) ==
    IF is_utf8(line.v) THEN line ELSE Err("InvalidData", <<>>, line.r)

\* usize::to_string: the decimal digits of n.
RECURSIVE to_string(_)
to_string(n) ==
    IF n < 10 THEN <<48 + n>> ELSE Append(to_string(n \div 10), 48 + (n % 10))

\* The bytes write_simple_string and write_bulk_string put on the stream
\* with their write_all calls.
simple_string_bytes(s) == <<43>> \o s \o CRLF
bulk_string_bytes(s) == <<36>> \o to_string(Len(s)) \o CRLF \o s \o CRLF

RedisBufStream_fill_buf(r) ==
    IF r.chunks = <<>>
    THEN Err("UnexpectedEof", 0, r)
    ELSE Ok(Len(Head(r.chunks)),
            Reader(stream_read(r.buffer, Head(r.chunks)), Tail(r.chunks)))

RedisBufStream_read_u8(r) ==
    Try(IF r.buffer = <<>> THEN RedisBufStream_fill_buf(r) ELSE Ok(0, r), 0,
        LAMBDA f : Ok(f.r.buffer[1], advance(f.r, 1)))

\* The loop of read_line_bytes, line holding what earlier passes took.
RECURSIVE read_line_bytes_from(_, _)
read_line_bytes_from(r, line) ==
    LET pos == position(r.buffer, CRLF)
    IN  IF pos >= 0
        THEN Ok(line \o SubSeq(r.buffer, 1, pos), advance(r, pos + 2))
        ELSE Try(RedisBufStream_fill_buf(Reader(<<>>, r.chunks)), <<>>,
                 LAMBDA f : read_line_bytes_from(f.r, line \o r.buffer))

read_line_bytes(r) == read_line_bytes_from(r, <<>>)

read_line(r) == Try(read_line_bytes(r), <<>>, from_utf8)

RECURSIVE RedisBufStream_read_bytes(_, _)
RedisBufStream_read_bytes(r, len) ==
    IF Len(r.buffer) < len
    THEN Try(RedisBufStream_fill_buf(r), <<>>,
             LAMBDA f : RedisBufStream_read_bytes(f.r, len))
    ELSE Ok(SubSeq(r.buffer, 1, len), advance(r, len))

\* line.parse::<usize>().
parse_usize(line) ==
    IF parse_u64(line.v).some THEN Ok(parse_u64(line.v).v, line.r)
                              ELSE Err("InvalidData", 0, line.r)

parse_int(r) == Try(read_line(r), 0, parse_usize)

\* (a terminator check that takes any two bytes for CR LF)
expect_crlf_any(line, end) == from_utf8(Ok(line.v, end.r))

\* The two bytes after the payload must be CR LF; then the payload must be
\* UTF-8.
expect_crlf(line, end) ==
    IF end.v # CRLF THEN Err("InvalidData", <<>>, end.r)
    ELSE from_utf8(Ok(line.v, end.r))

parse_bulk_string(r) ==
    Try(parse_int(r), <<>>, LAMBDA len :
    Try(RedisBufStream_read_bytes(len.r, len.v), <<>>, LAMBDA line :
    Try(RedisBufStream_read_bytes(line.r, 2), <<>>, LAMBDA end :
    expect_crlf(line, end))))

\* enum RedisValue; the array is the stream of its elements, known by the
\* number of elements it still has to deliver.
RedisValue_String(s) == [kind |-> "String", s |-> s, len |-> 0]
RedisValue_Array(len) == [kind |-> "Array", s |-> <<>>, len |-> len]
NoValue == [kind |-> "", s |-> <<>>, len |-> 0]

parse_array(r) ==
    Try(parse_int(r), NoValue, LAMBDA len : Ok(RedisValue_Array(len.v), len.r))

read_value(r) ==
    Try(RedisBufStream_read_u8(r), NoValue, LAMBDA type :
        CASE type.v = 43 ->
               Try(read_line(type.r), NoValue,
                   LAMBDA s : Ok(RedisValue_String(s.v), s.r))
          [] type.v = 36 ->
               Try(parse_bulk_string(type.r), NoValue,
                   LAMBDA s : Ok(RedisValue_String(s.v), s.r))
          [] type.v = 42 -> parse_array(type.r)
          [] OTHER -> Err("InvalidData", NoValue, type.r))

\* (an array stream that does not count the elements it delivers)
array_count_down_never(len) == len

\* self.len -= 1 in RedisArrayStream.
array_count_down(len) == len - 1

\* RedisArrayStream::read_value_dyn: None when no element is left, else the
\* next value of the stream under it.  [none, len] with the result.
read_value_dyn(len, r) ==
    IF len = 0
    THEN [none |-> TRUE, len |-> len] @@ Ok(NoValue, r)
    ELSE [none |-> FALSE, len |-> array_count_down(len)] @@ read_value(r)

\* RedisArrayStream::consume_rest; the value is the len the array stream is
\* left with.
RECURSIVE consume_rest(_, _)
consume_rest(len, r) ==
    IF len > 0
    THEN Try(read_value(r), len - 1, LAMBDA e : consume_rest(len - 1, e.r))
    ELSE Ok(0, r)

(* ------------------------------ RDB files ------------------------------ *)
\* rdb.rs.

FLAG_BITS == 192
REMAINING_BITS == 63

\* first & FLAG_BITS and first & REMAINING_BITS on a byte.
flag_of(first) == first - (first % (256 - FLAG_BITS))
remaining_of(first) == first % (REMAINING_BITS + 1)

U32(n) == <<n % 65536, n \div 65536>>

\* enum Length.
Normal(len) == [kind |-> "Normal", len |-> len, mode |-> 0]
Special(mode) == [kind |-> "Special", len |-> U32(0), mode |-> mode]

\* (a flag 11 that is taken for a plain 6-bit length)
length_special_as_normal(first) == Normal(U32(remaining_of(first)))

\* The flag 11.
length_special(first) == Special(remaining_of(first))

read_length(r) ==
    Try(read_u8(r), Normal(U32(0)), LAMBDA first :
        CASE flag_of(first.v) = 0 -> Ok(Normal(U32(first.v)), first.r)
          [] flag_of(first.v) = 64 ->
               Try(read_u8(first.r), Normal(U32(0)), LAMBDA second :
                   Ok(Normal(U32(remaining_of(first.v) * 256 + second.v)),
                      second.r))
          [] flag_of(first.v) = 128 ->
               Try(read_u32(first.r), Normal(U32(0)),
                   LAMBDA n : Ok(Normal(n.v), n.r))
          [] flag_of(first.v) = 192 -> Ok(length_special(first.v), first.r))

\* len as usize: a length of 2^31 or more is more than any stream here
\* holds, and is kept as the largest number at hand.
as_usize(len) ==
    IF len[2] >= 32768 THEN 2147483647 ELSE len[2] * 65536 + len[1]

\* (a string read that takes Special(k) for k bytes)
read_special_mode_bytes(r, mode) == read_bytes(r, mode)

\* The string behind a prefix Special(mode).
read_special(r, mode) ==
    CASE mode = 0 -> read_bytes(r, 1)
      [] mode = 1 -> read_bytes(r, 2)
      [] mode = 2 -> read_bytes(r, 4)
      [] OTHER -> Err("InvalidData", <<>>, r)

read_string(r) ==
    Try(read_length(r), <<>>, LAMBDA length :
        IF length.v.kind = "Normal"
        THEN read_bytes(length.r, as_usize(length.v.len))
        ELSE read_special(length.r, length.v.mode))

tok_REDIS == <<82, 69, 68, 73, 83>>
tok_0003 == <<48, 48, 48, 51>>

\* UNIX_EPOCH + Duration::from_millis(expiry) and from_secs(expiry) on the
\* model's clock, which counts milliseconds from the epoch: an instant past
\* 65535 is later than every instant the clock reaches and is kept as 65536.
from_millis(words) ==
    IF \A i \in 2..Len(words) : words[i] = 0 THEN words[1] ELSE 65536

\* (seconds that are taken for milliseconds)
from_secs_as_millis(words) == IF words[2] = 0 THEN words[1] ELSE 65536

from_secs(words) ==
    IF words[2] = 0 /\ words[1] <= 65 THEN words[1] * 1000 ELSE 65536

\* The state of the loop of read_rdb: the dataset so far, and whether the
\* end of the file was met.
RdbStep(done, ds) == [done |-> done, ds |-> ds]

\* key, then value: two RDB strings.
read_key_value(r) ==
    Try(read_string(r), <<>>, LAMBDA key :
    Try(read_string(key.r), <<>>, LAMBDA value :
        Ok([key |-> key.v, value |-> value.v], value.r)))

\* The entry of opcodes 0xFC and 0xFD after the expiry: the value type, which
\* must be 0, then key and value.
read_expiring(r, instant, ds) ==
    Try(read_u8(r), RdbStep(FALSE, ds), LAMBDA type :
        IF type.v # 0
        THEN Err("Only string values are supported", RdbStep(FALSE, ds),
                 type.r)
        ELSE Try(read_key_value(type.r), RdbStep(FALSE, ds), LAMBDA kv :
                 Ok(RdbStep(FALSE,
                        Dataset_set(Dataset_set_expiry(ds, kv.v.key, instant),
                                    kv.v.key, kv.v.value)),
                    kv.r)))

\* (an unknown opcode that is taken for the end of the file)
rdb_unknown_opcode_ends(ds, r) == Ok(RdbStep(TRUE, ds), r)

rdb_unknown_opcode(ds, r) ==
    Err("Invalid RDB file, unknown opcode", RdbStep(FALSE, ds), r)

\* Opcode 0xFE: the database index must be Normal(0).
rdb_select(ds, db) ==
    IF db.v # Normal(U32(0))
    THEN Err("Only DB 0 is supported right now", RdbStep(FALSE, ds), db.r)
    ELSE Ok(RdbStep(FALSE, ds), db.r)

\* One pass of the loop of read_rdb: an opcode and what belongs to it.
rdb_opcode(r, ds) ==
    Try(read_u8(r), RdbStep(FALSE, ds), LAMBDA opcode :
        CASE opcode.v = 0 ->
               Try(read_key_value(opcode.r), RdbStep(FALSE, ds), LAMBDA kv :
                   Ok(RdbStep(FALSE, Dataset_set(ds, kv.v.key, kv.v.value)),
                      kv.r))
          [] opcode.v = 250 ->
               Try(read_key_value(opcode.r), RdbStep(FALSE, ds),
                   LAMBDA kv : Ok(RdbStep(FALSE, ds), kv.r))
          [] opcode.v = 251 ->
               Try(read_length(opcode.r), RdbStep(FALSE, ds), LAMBDA a :
               Try(read_length(a.r), RdbStep(FALSE, ds), LAMBDA b :
                   Ok(RdbStep(FALSE, ds), b.r)))
          [] opcode.v = 252 ->
               Try(read_u64(opcode.r), RdbStep(FALSE, ds), LAMBDA expiry :
                   read_expiring(expiry.r, from_millis(expiry.v), ds))
          [] opcode.v = 253 ->
               Try(read_u32(opcode.r), RdbStep(FALSE, ds), LAMBDA expiry :
                   read_expiring(expiry.r, from_secs(expiry.v), ds))
          [] opcode.v = 254 ->
               Try(read_length(opcode.r), RdbStep(FALSE, ds),
                   LAMBDA db : rdb_select(ds, db))
          [] opcode.v = 255 -> Ok(RdbStep(TRUE, ds), opcode.r)
          [] OTHER -> rdb_unknown_opcode(ds, opcode.r))

\* The header of the file: the magic, then the version.
rdb_header(r) ==
    Try(read_bytes(r, 5), <<>>, LAMBDA magic :
        IF magic.v # tok_REDIS
        THEN Err("Invalid RDB file, invalid magic", <<>>, magic.r)
        ELSE Try(read_bytes(magic.r, 4), <<>>, LAMBDA version :
                 IF version.v # tok_0003
                 THEN Err("Invalid RDB file, invalid version", <<>>, version.r)
                 ELSE version))

\* The loop of read_rdb; the value is the vector of datasets returned.
RECURSIVE rdb_loop(_, _)
rdb_loop(r, ds) ==
    Try(rdb_opcode(r, ds), <<>>, LAMBDA s :
        IF s.v.done THEN Ok(<<s.v.ds>>, s.r) ELSE rdb_loop(s.r, s.v.ds))

\* read_rdb over a file that answers its reads with the chunks given.
read_rdb(chunks) ==
    Try(rdb_header(Reader(<<>>, chunks)), <<>>,
        LAMBDA h : rdb_loop(h.r, Dataset_new))

(* ------------------------------- startup ------------------------------- *)
\* The snapshot the server may be started on: REDIS0003, select db 0,
\* k -> v, expiring at 1 ms q -> w, end.
rdb_header_bytes == tok_REDIS \o tok_0003

Snapshots ==
    { rdb_header_bytes \o <<254, 0>> \o <<0, 1>> \o key_k \o <<1>> \o val_v
          \o <<252, 1, 0, 0, 0, 0, 0, 0, 0, 0, 1>> \o key_q \o <<1>> \o val_w
          \o <<255>> }

\* The dataset the connections start on: empty when no snapshot is
\* configured, else what read_rdb made of the snapshot, read in one piece.
StartDatasets ==
    {Dataset_new} \cup
    {read_rdb(<<file>>).v[1] : file \in Snapshots}

(* -------------------------------- state -------------------------------- *)

VARIABLES
    now,        \* the wall clock (SystemTime::now, Instant::now)
    dataset,    \* Database.datasets[0]
    config,     \* Database.config
    ds_lock,    \* the RwLock around datasets[0]
    config_lock,\* the RwLock around config
    pc,         \* where each connection's driver stands
    handler,    \* the handler the current request reached
    local,      \* the handler's locals: key, value, expiry
    wq,         \* the writes the handler still has to make
    out,        \* what was written to the stream for the current request
    status,     \* the error that ended the driver ("" while it runs)
    nreq,       \* history: requests read on the connection
    served,     \* history: for each reply frame completed, its request
    h_req,      \* history: the current request as the client meant it
    h_last,     \* history: per key, the last SET committed on it
    h_obs,      \* history: what a GET or KEYS found under its lock
    f_stage,    \* dispatch on its own: "idle", "chosen" or "done"
    f_base,     \* ... the request in lowercase
    f_req,      \* ... the request as spelled
    f_res       \* ... what dispatch and the handler made of it

server_vars == <<now, dataset, config, ds_lock, config_lock, pc, handler, local,
                 wq, out, status, nreq, served, h_req, h_last, h_obs>>

fold_vars == <<f_stage, f_base, f_req, f_res>>


NoLocal == [key |-> <<>>, value |-> <<>>, expiry |-> NoneI]

EqIgnoreCase(a, b) ==
    Len(a) = Len(b) /\ \A i \in 1..Len(a) : lower(a[i]) = lower(b[i])

\* A SET as the client wrote it: SET key value, or SET key value PX t with
\* the option name in any letter case and t decimal.
IsPlainSet(req) == Len(req) = 3 /\ EqIgnoreCase(req[1], tok_set)
IsPxSet(req) ==
    /\ Len(req) = 5
    /\ EqIgnoreCase(req[1], tok_set)
    /\ EqIgnoreCase(req[4], tok_px)
    /\ AllDigits(req[5])

\* The requests that are protocol-level command errors.
CommandNames == {tok_ping, tok_echo, tok_get, tok_set, tok_keys, tok_config}

IsCommand(req, name) == req # <<>> /\ EqIgnoreCase(req[1], name)

IsCommandError(req) ==
    \/ req = <<>>
    \/ \A name \in CommandNames : ~IsCommand(req, name)
    \/ IsCommand(req, tok_config)
          /\ (Len(req) < 2 \/ ~EqIgnoreCase(req[2], tok_get) \/ Len(req) < 3)
    \/ (IsCommand(req, tok_echo) \/ IsCommand(req, tok_get)) /\ Len(req) < 2
    \/ IsCommand(req, tok_keys) /\ (Len(req) < 2 \/ req[2] # tok_star)
    \/ IsCommand(req, tok_set)
          /\ \/ Len(req) < 3
             \/ Len(req) = 4 /\ EqIgnoreCase(req[4], tok_px)
             \/ Len(req) = 5 /\ EqIgnoreCase(req[4], tok_px) /\ ~AllDigits(req[5])

\* The walk of the spec tree misses: the command or subcommand is not in it.
IsMiss(req) ==
    /\ req # <<>>
    /\ \/ \A name \in CommandNames : ~IsCommand(req, name)
       \/ IsCommand(req, tok_config) /\ Len(req) >= 2
             /\ ~EqIgnoreCase(req[2], tok_get)

NoReq ==
    [kind |-> "", key |-> <<>>, value |-> <<>>, exp |-> NoneI, prev |-> FALSE,
     bad |-> FALSE, miss |-> FALSE]

Meant(req, t) ==
    [kind  |-> IF IsPlainSet(req) \/ IsPxSet(req) THEN "set" ELSE "other",
     key   |-> IF IsPlainSet(req) \/ IsPxSet(req) THEN req[2] ELSE <<>>,
     value |-> IF IsPlainSet(req) \/ IsPxSet(req) THEN req[3] ELSE <<>>,
     exp   |-> IF IsPxSet(req) THEN Some(t + DigitsValue(req[5], 0)) ELSE NoneI,
     prev  |-> FALSE,
     bad   |-> IsCommandError(req),
     miss  |-> IsMiss(req)]

NoObs ==
    [t |-> 0, last |-> None(NoReq), exp |-> NoneI, val |-> NoneB, keys |-> {},
     dead |-> {}]

ServerInit ==
    /\ now = 0
    /\ dataset \in StartDatasets
    /\ config = {<<tok_dir, tok_data>>}
    /\ ds_lock = RwLock_new
    /\ config_lock = RwLock_new
    /\ pc = [c \in Conns |-> "read"]
    /\ handler = [c \in Conns |-> ""]
    /\ local = [c \in Conns |-> NoLocal]
    /\ wq = [c \in Conns |-> <<>>]
    /\ out = [c \in Conns |-> <<>>]
    /\ status = [c \in Conns |-> ""]
    /\ nreq = [c \in Conns |-> 0]
    /\ served = [c \in Conns |-> <<>>]
    /\ h_req = [c \in Conns |-> NoReq]
    /\ h_last = {}
    /\ h_obs = [c \in Conns |-> NoObs]

RECURSIVE SumOver(_, _)
SumOver(f, S) ==
    IF S = {} THEN 0
    ELSE LET x == CHOOSE y \in S : TRUE IN f[x] + SumOver(f, S \ {x})

TotalRequests == SumOver(nreq, Conns)

\* The complete top-level RESP values in a sequence of writes: an array
\* header of n is complete with the n values after it.
RECURSIVE CompleteFrames(_)
CompleteFrames(items) ==
    IF items = <<>> THEN 0
    ELSE LET h == Head(items)
         IN  IF h.t = "array"
             THEN IF Len(items) - 1 >= h.n
                  THEN 1 + CompleteFrames(SubSeq(items, h.n + 2, Len(items)))
                  ELSE 0
             ELSE 1 + CompleteFrames(Tail(items))

RECURSIVE WholeFrames(_)
WholeFrames(items) ==
    IF items = <<>> THEN TRUE
    ELSE LET h == Head(items)
         IN  IF h.t = "array"
             THEN /\ Len(items) - 1 >= h.n
                  /\ \A i \in 2..(h.n + 1) : items[i].t # "array"
                  /\ WholeFrames(SubSeq(items, h.n + 2, Len(items)))
             ELSE WholeFrames(Tail(items))

(* ------------------------------- actions ------------------------------- *)

\* (a driver that drops the failed request and goes on reading)
on_error_continue(err) == [pc |-> "read", status |-> ""]

\* The driver's answer to an error of the walk, of parse_args or of the
\* handler: `?` and bail! return from handle_connection.
on_error(err) == [pc |-> "closed", status |-> err]

\* The handler has queued its writes: it writes them, or has none and returns.
after_handler(queue) == IF queue = <<>> THEN "read" ELSE "write"

\* One pass of the driver loop up to the handler's first lock or write:
\* read_string_array returns the next request; the walk of the spec tree,
\* parse_args and the start of the handler follow without suspension.
Request(c) ==
    /\ pc[c] = "read"
    /\ TotalRequests < MaxReq
    /\ \E req \in Requests :
         LET d == dispatch(create_command_specs, req, now)
         IN  /\ IF d.err # ""
                THEN /\ pc' = [pc EXCEPT ![c] = on_error(d.err).pc]
                     /\ status' = [status EXCEPT ![c] = on_error(d.err).status]
                     /\ local' = [local EXCEPT ![c] = NoLocal]
                     /\ wq' = [wq EXCEPT ![c] = <<>>]
                     /\ handler' = [handler EXCEPT ![c] = ""]
                ELSE /\ pc' = [pc EXCEPT ![c] =
                              IF d.pc = "write" THEN after_handler(d.wq) ELSE d.pc]
                     /\ local' = [local EXCEPT ![c] =
                            [key |-> d.key, value |-> d.value, expiry |-> d.expiry]]
                     /\ wq' = [wq EXCEPT ![c] = d.wq]
                     /\ handler' = [handler EXCEPT ![c] = d.handler]
                     /\ UNCHANGED status
             /\ h_req' = [h_req EXCEPT ![c] = Meant(req, now)]
    /\ nreq' = [nreq EXCEPT ![c] = @ + 1]
    /\ out' = [out EXCEPT ![c] = <<>>]
    /\ h_obs' = [h_obs EXCEPT ![c] = NoObs]
    /\ UNCHANGED <<now, dataset, config, ds_lock, config_lock, served, h_last>>

\* read_string_array fails (the peer closed the socket): `?` returns.
ReadFail(c) ==
    /\ pc[c] = "read"
    /\ pc' = [pc EXCEPT ![c] = on_error("UnexpectedEof").pc]
    /\ status' = [status EXCEPT ![c] = on_error("UnexpectedEof").status]
    /\ UNCHANGED <<now, dataset, config, ds_lock, config_lock, handler, local,
                   wq, out, nreq, served, h_req, h_last, h_obs>>

\* self.db.read(0) in handle_get and handle_keys.
Database_read(c) ==
    /\ pc[c] \in {"get_lock", "keys_lock"}
    /\ can_read(ds_lock)
    /\ ds_lock' = RwLock_read(ds_lock, c)
    /\ pc' = [pc EXCEPT ![c] = IF pc[c] = "get_lock" THEN "get_locked"
                                                     ELSE "keys_locked"]
    /\ UNCHANGED <<now, dataset, config, config_lock, handler, local, wq, out,
                   status, nreq, served, h_req, h_last, h_obs>>

\* self.db.write(0) in handle_set.
Database_write(c) ==
    /\ pc[c] = "set_lock"
    /\ can_write(ds_lock)
    /\ ds_lock' = RwLock_write(ds_lock, c)
    /\ pc' = [pc EXCEPT ![c] = "set_expiry"]
    /\ UNCHANGED <<now, dataset, config, config_lock, handler, local, wq, out,
                   status, nreq, served, h_req, h_last, h_obs>>

\* What a GET finds under its lock, for the record.
Observed(key) ==
    [t |-> now,
     last |-> IF MapHas(h_last, key) THEN Some(MapGet(h_last, key))
                                     ELSE None(NoReq),
     exp |-> IF MapHas(dataset.expiry, key)
             THEN Some(MapGet(dataset.expiry, key)) ELSE NoneI,
     val |-> IF MapHas(dataset.data, key)
             THEN Some(MapGet(dataset.data, key)) ELSE NoneB,
     keys |-> {},
     dead |-> {}]

\* (a GET that deletes the key it finds expired)
GetLocked_purging(c) ==
    /\ pc[c] = "get_locked"
    /\ LET key == local[c].key
           queue == get_reply(dataset, key, now)
       IN  /\ wq' = [wq EXCEPT ![c] = queue]
           /\ pc' = [pc EXCEPT ![c] = after_handler(queue)]
           /\ h_obs' = [h_obs EXCEPT ![c] = Observed(key)]
           /\ dataset' = IF queue = <<NullBulkString>>
                          THEN [data |-> MapRemove(dataset.data, key),
                                expiry |-> MapRemove(dataset.expiry, key)]
                          ELSE dataset
    /\ ds_lock' = drop_read_guard(ds_lock, c)
    /\ UNCHANGED <<now, config, config_lock, handler, local, out, status, nreq,
                   served, h_req, h_last>>

\* handle_get under the reader lock: lock.get(&key), then the guard drops.
GetLocked(c) ==
    /\ pc[c] = "get_locked"
    /\ LET key == local[c].key
           queue == get_reply(dataset, key, now)
       IN  /\ wq' = [wq EXCEPT ![c] = queue]
           /\ pc' = [pc EXCEPT ![c] = after_handler(queue)]
           /\ h_obs' = [h_obs EXCEPT ![c] = Observed(key)]
    /\ ds_lock' = drop_read_guard(ds_lock, c)
    /\ UNCHANGED <<now, dataset, config, config_lock, handler, local, out,
                   status, nreq, served, h_req, h_last>>

\* handle_set under the writer lock, first statement: the expiry.
SetExpiry(c) ==
    /\ pc[c] = "set_expiry"
    /\ dataset' = set_locked_expiry(dataset, local[c].key, local[c].expiry)
    /\ h_req' = [h_req EXCEPT ![c].prev = MapHas(dataset.expiry, local[c].key)]
    /\ pc' = [pc EXCEPT ![c] = "set_value"]
    /\ UNCHANGED <<now, config, ds_lock, config_lock, handler, local, wq, out,
                   status, nreq, served, h_last, h_obs>>

\* handle_set under the writer lock, second statement: lock.set(key, value),
\* then the guard drops.
SetValue(c) ==
    /\ pc[c] = "set_value"
    /\ dataset' = set_locked_value(dataset, local[c].key, local[c].value)
    /\ ds_lock' = drop_write_guard(ds_lock, c)
    /\ LET queue == set_reply
       IN  /\ wq' = [wq EXCEPT ![c] = queue]
           /\ pc' = [pc EXCEPT ![c] = after_handler(queue)]
    /\ h_last' = IF h_req[c].kind = "set"
                 THEN MapInsert(h_last, h_req[c].key, h_req[c])
                 ELSE MapRemove(h_last, local[c].key)
    /\ UNCHANGED <<now, config, config_lock, handler, local, out, status, nreq,
                   served, h_req, h_obs>>

\* handle_keys under the reader lock: lock.all_keys(), copied; then the
\* guard drops.
KeysLocked(c) ==
    /\ pc[c] = "keys_locked"
    /\ \E keys \in Dataset_all_keys(dataset) :
           LET queue == keys_reply(keys)
           IN  /\ wq' = [wq EXCEPT ![c] = queue]
               /\ pc' = [pc EXCEPT ![c] = after_handler(queue)]
    /\ h_obs' = [h_obs EXCEPT ![c] =
           [NoObs EXCEPT !.t = now,
                         !.keys = MapKeys(dataset.data),
                         !.dead = {k \in MapKeys(dataset.data) :
                                     /\ MapHas(dataset.expiry, k)
                                     /\ MapGet(dataset.expiry, k) < now}]]
    /\ ds_lock' = drop_read_guard(ds_lock, c)
    /\ UNCHANGED <<now, dataset, config, config_lock, handler, local, out,
                   status, nreq, served, h_req, h_last>>

\* self.config.read() in Database::get_config.
Config_read(c) ==
    /\ pc[c] = "config_lock"
    /\ can_read(config_lock)
    /\ config_lock' = RwLock_read(config_lock, c)
    /\ pc' = [pc EXCEPT ![c] = "config_locked"]
    /\ UNCHANGED <<now, dataset, config, ds_lock, handler, local, wq, out,
                   status, nreq, served, h_req, h_last, h_obs>>

\* Database::get_config under the reader lock, the guard dropping at the end
\* of the statement; handle_config_get then queues its three writes.
ConfigLocked(c) ==
    /\ pc[c] = "config_locked"
    /\ LET key == local[c].key
           queue == config_get_reply(config, key)
       IN  /\ wq' = [wq EXCEPT ![c] = queue]
           /\ pc' = [pc EXCEPT ![c] = after_handler(queue)]
    /\ config_lock' = drop_read_guard(config_lock, c)
    /\ UNCHANGED <<now, dataset, config, ds_lock, handler, local, out, status,
                   nreq, served, h_req, h_last, h_obs>>

\* One write_* call on the stream completes; after the last one the handler
\* returns Ok, its locals are dropped and the driver loops.
Write(c) ==
    /\ pc[c] = "write"
    /\ wq[c] # <<>>
    /\ LET written == Append(out[c], Head(wq[c]))
           more == CompleteFrames(written) - CompleteFrames(out[c])
           last == Tail(wq[c]) = <<>>
       IN  /\ served' = [served EXCEPT ![c] = @ \o [i \in 1..more |-> nreq[c]]]
           /\ out' = [out EXCEPT ![c] = IF last THEN <<>> ELSE written]
           /\ pc' = [pc EXCEPT ![c] = IF last THEN "read" ELSE "write"]
           /\ local' = [local EXCEPT ![c] = IF last THEN NoLocal ELSE @]
           /\ handler' = [handler EXCEPT ![c] = IF last THEN "" ELSE @]
           /\ h_req' = [h_req EXCEPT ![c] = IF last THEN NoReq ELSE @]
           /\ h_obs' = [h_obs EXCEPT ![c] = IF last THEN NoObs ELSE @]
    /\ wq' = [wq EXCEPT ![c] = Tail(@)]
    /\ UNCHANGED <<now, dataset, config, ds_lock, config_lock, status, nreq,
                   h_last>>

\* A write_* call fails: the `?` returns the I/O error from the driver.
WriteFail(c) ==
    /\ pc[c] = "write"
    /\ wq[c] # <<>>
    /\ pc' = [pc EXCEPT ![c] = on_error("io error").pc]
    /\ status' = [status EXCEPT ![c] = on_error("io error").status]
    /\ wq' = [wq EXCEPT ![c] = <<>>]
    /\ out' = [out EXCEPT ![c] = <<>>]
    /\ local' = [local EXCEPT ![c] = NoLocal]
    /\ handler' = [handler EXCEPT ![c] = ""]
    /\ h_req' = [h_req EXCEPT ![c] = NoReq]
    /\ h_obs' = [h_obs EXCEPT ![c] = NoObs]
    /\ UNCHANGED <<now, dataset, config, ds_lock, config_lock, nreq, served,
                   h_last>>

\* Time passes.
Tick ==
    /\ now < MaxTime
    /\ now' = now + 1
    /\ UNCHANGED <<dataset, config, ds_lock, config_lock, pc, handler, local,
                   wq, out, status, nreq, served, h_req, h_last, h_obs>>

(* ---------------------- dispatch on its own --------------------------- *)
\* Every spelling of a command in upper and lower case letters goes through
\* dispatch and its handler, against a database that holds one key.

RECURSIVE AllSpellings(_)
AllSpellings(tok) ==
    IF tok = <<>> THEN {<<>>}
    ELSE {<<ch>> \o r : ch \in {Head(tok), upper(Head(tok))},
                        r \in AllSpellings(Tail(tok))}

\* The requests in lowercase, with the number of command tokens of each.
FoldBases ==
    { [req |-> <<tok_ping>>, n |-> 1],
      [req |-> <<tok_echo, val_v>>, n |-> 1],
      [req |-> <<tok_get, key_k>>, n |-> 1],
      [req |-> <<tok_set, key_k, val_w>>, n |-> 1],
      [req |-> <<tok_keys, tok_star>>, n |-> 1],
      [req |-> <<tok_config, tok_get, tok_dir>>, n |-> 2] }

SpelledRequests(base) ==
    IF base.n = 1
    THEN {<<a>> \o Tail(base.req) : a \in AllSpellings(base.req[1])}
    ELSE {<<a, b>> \o Tail(Tail(base.req)) :
             a \in AllSpellings(base.req[1]), b \in AllSpellings(base.req[2])}

SampleDataset == Dataset_set(Dataset_new, key_k, val_v)
SampleConfig == {<<tok_dir, tok_data>>}

\* The replies a request can get when its handler runs to the end alone.
Replies(d, ds, cfg, t) ==
    IF d.err # "" THEN {}
    ELSE CASE d.handler = "handle_get" -> {get_reply(ds, d.key, t)}
           [] d.handler = "handle_set" -> {set_reply}
           [] d.handler = "handle_keys" ->
                  {keys_reply(keys) : keys \in Dataset_all_keys(ds)}
           [] d.handler = "handle_config_get" -> {config_get_reply(cfg, d.key)}
           [] OTHER -> {d.wq}

Outcome(req) ==
    LET d == dispatch(create_command_specs, req, 0)
    IN  [d |-> d, replies |-> Replies(d, SampleDataset, SampleConfig, 0)]

NoOutcome == [d |-> [handler |-> ""] @@ Failed(""), replies |-> {}]

FoldInit ==
    /\ f_stage = "idle"
    /\ f_base = <<>>
    /\ f_req = <<>>
    /\ f_res = NoOutcome

FoldChoose ==
    /\ \E base \in FoldBases : \E req \in SpelledRequests(base) :
          /\ f_base' = base.req
          /\ f_req' = req
    /\ f_stage' = "chosen"
    /\ f_res' = NoOutcome

FoldDispatch ==
    /\ f_stage = "chosen"
    /\ f_res' = Outcome(f_req)
    /\ f_stage' = "done"
    /\ UNCHANGED <<f_base, f_req>>

(* ------------------------- the decoders on their own ------------------- *)
\* A byte stream is chosen, and the way the transport cuts it into reads;
\* the decoder's calls are then made on it one after the other.  Next to the
\* reader that gets the stream in pieces runs one that gets the same stream
\* in one piece, for comparison.

VARIABLES
    in_stage,   \* "idle", "run" or "end"
    in_frames,  \* the frames the stream was made of
    in_aligned, \* every read delivers whole frames
    in_reader,  \* the reader over the stream as the transport cuts it
    in_whole,   \* the reader over the same stream in one piece
    in_array,   \* elements the array stream in hand still delivers; -1: none
    in_pos,     \* frames consumed so far
    in_log      \* the calls made and what they returned

byte_vars == <<in_stage, in_frames, in_aligned, in_reader, in_whole, in_array,
               in_pos, in_log>>

\* All ways to cut bytes into at most k reads of at least one byte each.
RECURSIVE Chunkings(_, _)
Chunkings(bytes, k) ==
    IF bytes = <<>> THEN {<<>>}
    ELSE IF k <= 1 THEN {<<bytes>>}
    ELSE {<<bytes>>} \cup
         UNION { {<<SubSeq(bytes, 1, i)>> \o rest :
                    rest \in Chunkings(SubSeq(bytes, i + 1, Len(bytes)), k - 1)}
                 : i \in 1..(Len(bytes) - 1) }

RECURSIVE Flatten(_)
Flatten(seqs) == IF seqs = <<>> THEN <<>> ELSE Head(seqs) \o Flatten(Tail(seqs))

\* The bytes a reader has still to hand out.
Remaining(r) == r.buffer \o Flatten(r.chunks)

\* The offsets at which the chunks end.
RECURSIVE Cuts(_, _)
Cuts(chunks, at) ==
    IF chunks = <<>> THEN {}
    ELSE {at + Len(Head(chunks))} \cup Cuts(Tail(chunks), at + Len(Head(chunks)))

\* A frame of a stream: its bytes, and what a decoder is to make of it.
Frame(bytes, err, v) == [bytes |-> bytes, err |-> err, v |-> v]

SimpleFrame(s) == Frame(simple_string_bytes(s), "", RedisValue_String(s))
BulkFrame(s) == Frame(bulk_string_bytes(s), "", RedisValue_String(s))
ArrayFrame(n) == Frame(<<42>> \o to_string(n) \o CRLF, "", RedisValue_Array(n))
\* A bulk string of length Len(s) whose payload is not followed by CR LF.
TornFrame(s, end) ==
    Frame(<<36>> \o to_string(Len(s)) \o CRLF \o s \o end, "InvalidData",
          NoValue)

FrameBytes(frames) == Flatten([i \in 1..Len(frames) |-> frames[i].bytes])

Payloads ==
    { <<>>, <<97>>, <<13, 10>>, <<97, 13, 10, 98>>, <<10, 13>>, <<195, 169>>,
      <<255>>, <<97, 128>> }

Ends == { <<97, 98>>, <<13, 13>>, <<10, 13>>, <<13, 97>> }

RespStreams ==
    { <<BulkFrame(s), SimpleFrame(<<98>>)>> : s \in Payloads } \cup
    { <<TornFrame(s, e), SimpleFrame(<<98>>)>> :
          s \in {<<97>>, <<13, 10>>}, e \in Ends } \cup
    { <<ArrayFrame(2), BulkFrame(<<97>>), SimpleFrame(<<98>>),
        BulkFrame(<<99>>)>>,
      <<ArrayFrame(1), BulkFrame(<<13, 10>>), SimpleFrame(<<98>>)>>,
      <<ArrayFrame(0), SimpleFrame(<<98>>)>>,
      <<SimpleFrame(<<97>>), BulkFrame(<<98>>)>>,
      <<Frame(<<58, 49, 13, 10>>, "InvalidData", NoValue)>>,
      <<Frame(<<36, 97, 13, 10>>, "InvalidData", NoValue)>> }

InInit ==
    /\ in_stage = "idle"
    /\ in_frames = <<>>
    /\ in_aligned = TRUE
    /\ in_reader = Reader(<<>>, <<>>)
    /\ in_whole = Reader(<<>>, <<>>)
    /\ in_array = -1
    /\ in_pos = 0
    /\ in_log = <<>>

\* The offsets at which the frames end.
FrameEnds(frames) ==
    {Len(FrameBytes(SubSeq(frames, 1, i))) : i \in 1..Len(frames)}

RespChoose ==
    /\ in_stage = "idle"
    /\ \E frames \in RespStreams :
         \E chunks \in Chunkings(FrameBytes(frames), MaxChunks) :
            /\ in_frames' = frames
            /\ in_aligned' = (Cuts(chunks, 0) \subseteq FrameEnds(frames))
            /\ in_reader' = Reader(<<>>, chunks)
            /\ in_whole' = Reader(<<>>, <<FrameBytes(frames)>>)
    /\ in_stage' = "run"
    /\ in_array' = -1
    /\ in_pos' = 0
    /\ in_log' = <<>>

\* The record of a call: what it returned on the stream in pieces and on the
\* stream in one piece, and the bytes it took.
Call(op, none, res, ref) ==
    [op |-> op, at |-> in_pos + 1, none |-> none, err |-> res.err,
     v |-> res.v, used |-> Len(Remaining(in_reader)) - Len(Remaining(res.r)),
     ref_err |-> ref.err, ref_v |-> ref.v]

\* The caller goes on after a call that returned a value, the same on both
\* streams; an error ends the decoding.
GoesOn(res, ref) == res.err = "" /\ ref.err = "" /\ res.v = ref.v

\* read_value on the stream itself.
RespReadValue ==
    /\ in_stage = "run"
    /\ in_array = -1
    /\ LET res == read_value(in_reader)
           ref == read_value(in_whole)
       IN  /\ in_log' = Append(in_log, Call("read_value", FALSE, res, ref))
           /\ in_reader' = res.r
           /\ in_whole' = ref.r
           /\ in_stage' = IF GoesOn(res, ref) THEN "run" ELSE "end"
           /\ in_array' = IF GoesOn(res, ref) /\ res.v.kind = "Array"
                          THEN res.v.len ELSE -1
    /\ in_pos' = in_pos + 1
    /\ UNCHANGED <<in_frames, in_aligned>>

\* read_value_dyn on the array stream in hand; the caller drops the array
\* stream when it returns None.
RespArrayRead ==
    /\ in_stage = "run"
    /\ in_array >= 0
    /\ Len(in_log) <= Len(in_frames) + 1
    /\ LET res == read_value_dyn(in_array, in_reader)
           ref == read_value_dyn(in_array, in_whole)
       IN  /\ in_log' = Append(in_log,
                               Call("read_value_dyn", res.none, res, ref))
           /\ in_reader' = res.r
           /\ in_whole' = ref.r
           /\ in_stage' = IF GoesOn(res, ref) THEN "run" ELSE "end"
           /\ in_array' = IF res.none THEN -1 ELSE res.len
           /\ in_pos' = IF res.none THEN in_pos ELSE in_pos + 1
    /\ UNCHANGED <<in_frames, in_aligned>>

\* consume_rest on the array stream in hand, which is then dropped.
RespConsumeRest ==
    /\ in_stage = "run"
    /\ in_array >= 0
    /\ LET res == consume_rest(in_array, in_reader)
           ref == consume_rest(in_array, in_whole)
       IN  /\ in_log' = Append(in_log,
                 Call("consume_rest", FALSE, res, ref))
           /\ in_reader' = res.r
           /\ in_whole' = ref.r
           /\ in_stage' = IF res.err = "" /\ ref.err = "" THEN "run" ELSE "end"
           /\ in_pos' = in_pos + (in_array - res.v)
    /\ in_array' = -1
    /\ UNCHANGED <<in_frames, in_aligned>>

(* ------------------------ the reader primitives ------------------------ *)
\* The primitives of BufReaderExt called one after another on a reader over
\* a stream the file or socket delivers in reads.  The log keeps, for every
\* call, the bytes the reader had still to hand out before it (rem) and
\* after it (left).

ReaderStreams ==
    { <<97, 98, 99>>,
      <<1, 2, 3, 4, 5, 6, 7, 8, 9>>,
      <<97, 13, 10, 98, 13, 10, 99>>,
      <<97, 13, 13, 10, 98>>,
      <<97, 10, 13>> }

\* The calls made on one reader, at most.
MaxCalls == 2

ReaderChoose ==
    /\ in_stage = "idle"
    /\ \E bytes \in ReaderStreams :
         \E chunks \in Chunkings(bytes, MaxChunks) :
            /\ in_aligned' = (Len(chunks) <= 1)
            /\ in_reader' = Reader(<<>>, chunks)
            /\ in_whole' = Reader(<<>>, <<bytes>>)
    /\ in_stage' = "run"
    /\ in_log' = <<>>
    /\ UNCHANGED <<in_frames, in_array, in_pos>>

\* A call op(arg) that returned res.
ReaderCall(op, arg, res) ==
    /\ in_stage = "run"
    /\ Len(in_log) < MaxCalls
    /\ in_log' = Append(in_log,
                    [op |-> op, arg |-> arg, rem |-> Remaining(in_reader),
                     err |-> res.err, v |-> res.v, left |-> Remaining(res.r)])
    /\ in_reader' = res.r
    /\ in_stage' = IF res.err = "" THEN "run" ELSE "end"
    /\ UNCHANGED <<in_frames, in_aligned, in_whole, in_array, in_pos>>

ReadU8 == ReaderCall("read_u8", <<>>, read_u8(in_reader))
ReadU16 == ReaderCall("read_u16", <<>>, read_u16(in_reader))
ReadU32 == ReaderCall("read_u32", <<>>, read_u32(in_reader))
ReadU64 == ReaderCall("read_u64", <<>>, read_u64(in_reader))
ReadBytes == \E len \in 0..3 :
    ReaderCall("read_bytes", <<len>>, read_bytes(in_reader, len))
ReadUntil == \E delimeter \in {CRLF, <<LF>>} :
    ReaderCall("read_until", delimeter, read_until(in_reader, delimeter))

(* --------------------------- the RDB reader ---------------------------- *)
\* read_length, read_string and read_rdb on inputs the file delivers with
\* one read (a file shorter than the 1 MiB the buffer reserves).

\* An input: its bytes; for a file, what is wrong with it ("" when nothing
\* is) and the dataset it describes.
RdbInput(kind, bytes, defect, ds) ==
    [kind |-> kind, bytes |-> bytes, defect |-> defect, ds |-> ds]

\* The four bytes of a u32, least significant first.
le_bytes(n) ==
    <<n[1] % 256, n[1] \div 256, n[2] % 256, n[2] \div 256>>

SampleU32 ==
    { <<w0, w1>> : w0 \in {0, 1, 255, 256, 65535}, w1 \in {0, 1, 65535} }

\* Length prefixes with bytes behind them.
RdbPrefixes ==
    { <<0>>, <<3, 97, 98, 99, 100>>, <<3, 97>>, <<63>>,
      <<64, 2, 97, 98, 99>>, <<65, 0, 97>>, <<127, 255>>, <<64>>,
      <<128, 2, 0, 0, 0, 97, 98, 99>>, <<128, 1, 0>>, <<191, 1, 0, 0, 0, 97>>,
      <<192, 7, 8>>, <<193, 7, 8, 9>>, <<194, 1, 2, 3, 4, 5>>, <<194, 1, 2>>,
      <<195, 1, 2, 3, 4, 5, 6, 7, 8, 9>>, <<255, 1>> } \cup
    { <<128>> \o le_bytes(n) : n \in SampleU32 }

entry_k_v == <<0, 1>> \o key_k \o <<1>> \o val_v
entry_q_w_ms == <<252, 1, 0, 0, 0, 0, 0, 0, 0, 0, 1>> \o key_q \o <<1>> \o val_w
entry_q_w_s == <<253, 1, 0, 0, 0, 0, 1>> \o key_q \o <<1>> \o val_w
entry_aux == <<250, 1, 97, 1, 98>>
entry_resize == <<251, 2, 1>>

GoodFiles ==
    { RdbInput("file", rdb_header_bytes \o <<255>>, "", Dataset_new),
      RdbInput("file", rdb_header_bytes \o <<255, 1, 2>>, "", Dataset_new),
      RdbInput("file",
               rdb_header_bytes \o <<254, 0>> \o entry_k_v \o <<255>>, "",
               [data |-> {<<key_k, val_v>>}, expiry |-> {}]),
      RdbInput("file",
               rdb_header_bytes \o entry_aux \o <<254, 0>> \o entry_resize
                   \o entry_k_v \o entry_q_w_ms \o <<255>>, "",
               [data |-> {<<key_k, val_v>>, <<key_q, val_w>>},
                expiry |-> {<<key_q, 1>>}]),
      RdbInput("file", rdb_header_bytes \o entry_q_w_s \o <<255>>, "",
               [data |-> {<<key_q, val_w>>}, expiry |-> {<<key_q, 1000>>}]) }

BadFile(bytes, defect) == RdbInput("file", bytes, defect, Dataset_new)

BadFiles ==
    { BadFile(<<82, 69, 68, 73, 84>> \o tok_0003 \o <<255>>, "magic"),
      BadFile(tok_REDIS \o <<48, 48, 48, 52>> \o <<255>>, "version"),
      BadFile(tok_REDIS \o <<48, 48, 49, 49>> \o entry_k_v \o <<255>>,
              "version"),
      BadFile(rdb_header_bytes \o entry_k_v \o <<1, 255>>, "opcode"),
      BadFile(rdb_header_bytes \o <<249, 255>>, "opcode"),
      BadFile(rdb_header_bytes \o <<254, 1>> \o entry_k_v \o <<255>>, "db"),
      BadFile(rdb_header_bytes \o <<254, 192, 255>>, "db"),
      BadFile(rdb_header_bytes \o entry_k_v
                  \o <<252, 1, 0, 0, 0, 0, 0, 0, 0, 1, 1>> \o key_q \o <<1>>
                  \o val_w \o <<255>>, "type"),
      BadFile(rdb_header_bytes \o <<253, 1, 0, 0, 0, 4, 1>> \o key_q \o <<1>>
                  \o val_w \o <<255>>, "type"),
      BadFile(rdb_header_bytes \o entry_k_v, "end"),
      BadFile(rdb_header_bytes \o <<254, 0, 0, 1>> \o key_k \o <<9>>, "end"),
      BadFile(rdb_header_bytes, "end"),
      BadFile(<<82, 69, 68>>, "end"),
      BadFile(<<>>, "end") }

\* Files of one expiring record q -> w: opcode 0xFC with m milliseconds,
\* opcode 0xFD with s seconds.
SampleMillis == {0, 1, 999, 1000, 2000, 65000, 65535}
SampleSecs == {0, 1, 2, 65}

u64_le_bytes(m) == <<m % 256, m \div 256, 0, 0, 0, 0, 0, 0>>

file_millis(m) ==
    rdb_header_bytes \o <<252>> \o u64_le_bytes(m) \o <<0, 1>> \o key_q
        \o <<1>> \o val_w \o <<255>>

file_secs(s) ==
    rdb_header_bytes \o <<253>> \o le_bytes(U32(s)) \o <<0, 1>> \o key_q
        \o <<1>> \o val_w \o <<255>>

\* The dataset of q -> w expiring at the instant t.
expiring_q_w(t) == [data |-> {<<key_q, val_w>>}, expiry |-> {<<key_q, t>>}]

ExpiryFiles ==
    { RdbInput("file", file_millis(m), "", expiring_q_w(m)) : m \in SampleMillis }
        \cup
    { RdbInput("file", file_secs(s), "", expiring_q_w(1000 * s)) :
          s \in SampleSecs }

RdbInputs ==
    { RdbInput("bytes", b, "", Dataset_new) : b \in RdbPrefixes }
        \cup GoodFiles \cup BadFiles \cup ExpiryFiles

RdbChoose ==
    /\ in_stage = "idle"
    /\ \E input \in RdbInputs :
          /\ in_frames' = <<input>>
          /\ in_reader' = Reader(<<>>, IF input.bytes = <<>> THEN <<>>
                                       ELSE <<input.bytes>>)
    /\ in_stage' = "run"
    /\ in_aligned' = TRUE
    /\ in_log' = <<>>
    /\ UNCHANGED <<in_whole, in_array, in_pos>>

\* A call on the input chosen; like ReaderCall, the input kept.
RdbCall(kind, op, res) ==
    /\ Len(in_frames) = 1
    /\ in_frames[1].kind = kind
    /\ ReaderCall(op, <<>>, res)

RdbReadLength == RdbCall("bytes", "read_length", read_length(in_reader))

RdbReadString == RdbCall("bytes", "read_string", read_string(in_reader))

\* read_rdb(file), which makes its own reader over the file.
RdbLoad ==
    /\ in_log = <<>>
    /\ RdbCall("file", "read_rdb", read_rdb(in_reader.chunks))

(* ------------------------ parse_args on its own ------------------------ *)
\* parse_args over every short sequence of tokens, for specs with 0 to 2
\* leading arguments and a named argument px of 0 (a flag), 1 or 2 values.

ArgTokens == {key_k, tok_1, tok_px, to_uppercase(tok_px)}

RECURSIVE SeqsUpTo(_, _)
SeqsUpTo(S, n) ==
    IF n = 0 THEN {<<>>}
    ELSE LET shorter == SeqsUpTo(S, n - 1)
         IN  shorter \cup {Append(q, x) : q \in shorter, x \in S}

ArgSpecs ==
    { [leading_argc |-> l, named_arg_argc |-> m] :
          l \in 0..2,
          m \in { {}, {<<tok_px, 0>>}, {<<tok_px, 1>>}, {<<tok_px, 2>>} } }

ArgsChoose ==
    /\ f_stage = "idle"
    /\ \E spec \in ArgSpecs : \E tokens \in SeqsUpTo(ArgTokens, MaxArgs) :
          /\ f_base' = spec
          /\ f_req' = tokens
    /\ f_stage' = "chosen"
    /\ UNCHANGED f_res

ArgsParse ==
    /\ f_stage = "chosen"
    /\ f_res' = parse_args(f_base.leading_argc, f_base.named_arg_argc, f_req)
    /\ f_stage' = "parsed"
    /\ UNCHANGED <<f_base, f_req>>

(* --------------------------- the epoll server -------------------------- *)
\* main.rs: one thread, one epoll instance, the listener and the accepted
\* connections in slots.  Sockets are numbered from 1 in the order the peers
\* connect; the listener is socket 0.  The data of an epoll registration is
\* a u64, kept as four 16-bit words, least significant first.

\* The sockets that peers open, at most.
MaxSockets == 3

LISTENER_DATA == <<65535, 65535, 65535, 65535>>

\* connection_index as u64, and data as usize as an index of connections
\* (-1: past the end of any vector).
index_as_u64(index) == <<index % 65536, index \div 65536, 0, 0>>
data_as_usize(data) ==
    IF data[3] = 0 /\ data[4] = 0 /\ data[2] < 16384
    THEN data[2] * 65536 + data[1] ELSE -1

VARIABLES
    ep_status,   \* "run", or "exited" once run has returned
    connections, \* ProgramContext.connections: per slot a socket, or 0 (None)
    epoll,       \* the registrations of the epoll instance: [fd, data]
    ep_events,   \* the events of the last epoll.wait still to be handled
    ep_open,     \* the accepted sockets the process holds open
    ep_backlog,  \* the connections waiting in the listener's queue
    ep_peer,     \* per socket, its state as read will find it
    ep_last      \* history: the last handle_epollin and what it found

epoll_vars == <<ep_status, connections, epoll, ep_events, ep_open, ep_backlog,
                ep_peer, ep_last>>

Registration(fd, data) == [fd |-> fd, data |-> data]

NoHandled == [op |-> "", index |-> 0, fd |-> 0, before |-> <<>>, err |-> ""]

Handled(op, index, fd, err) ==
    [op |-> op, index |-> index, fd |-> fd, before |-> connections,
     err |-> err]

\* ProgramContext::new, and run up to its loop.
EpollInit ==
    /\ ep_status = "run"
    /\ connections = <<>>
    /\ epoll = {Registration(0, LISTENER_DATA)}
    /\ ep_events = <<>>
    /\ ep_open = {}
    /\ ep_backlog = <<>>
    /\ ep_peer = <<>>
    /\ ep_last = NoHandled

\* A peer connects, sends a request, closes its end, or resets the
\* connection.
PeerConnect ==
    /\ Len(ep_peer) < MaxSockets
    /\ ep_peer' = Append(ep_peer, "open")
    /\ ep_backlog' = Append(ep_backlog, Len(ep_peer) + 1)
    /\ UNCHANGED <<ep_status, connections, epoll, ep_events, ep_open, ep_last>>

PeerSend ==
    /\ \E s \in 1..Len(ep_peer) :
          /\ ep_peer[s] = "open"
          /\ ep_peer' = [ep_peer EXCEPT ![s] = "sent"]
    /\ UNCHANGED <<ep_status, connections, epoll, ep_events, ep_open,
                   ep_backlog, ep_last>>

PeerClose ==
    /\ \E s \in 1..Len(ep_peer) :
          /\ ep_peer[s] = "open"
          /\ ep_peer' = [ep_peer EXCEPT ![s] = "closed"]
    /\ UNCHANGED <<ep_status, connections, epoll, ep_events, ep_open,
                   ep_backlog, ep_last>>

PeerReset ==
    /\ \E s \in 1..Len(ep_peer) :
          /\ ep_peer[s] \in {"open", "sent"}
          /\ ep_peer' = [ep_peer EXCEPT ![s] = "reset"]
    /\ UNCHANGED <<ep_status, connections, epoll, ep_events, ep_open,
                   ep_backlog, ep_last>>

\* The registrations epoll.wait reports with EPOLLIN: the listener with a
\* connection waiting, a socket with bytes, an end of stream or an error.
Ready ==
    {r \in epoll :
        IF r.fd = 0 THEN ep_backlog # <<>> ELSE ep_peer[r.fd] # "open"}

\* The orders in which a set of registrations can be reported.
Orders(S) ==
    {q \in [1..Cardinality(S) -> S] : \A i, j \in 1..Cardinality(S) :
                                         i # j => q[i] # q[j]}

\* self.epoll.wait(&mut events, EpollTimeout::NONE) returns Ok.
Wait ==
    /\ ep_status = "run"
    /\ ep_events = <<>>
    /\ Ready # {}
    /\ \E q \in Orders(Ready) :
          ep_events' = [i \in 1..Len(q) |-> q[i].data]
    /\ UNCHANGED <<ep_status, connections, epoll, ep_open, ep_backlog,
                   ep_peer, ep_last>>

\* run returns, with the error of handle_epollin or, after an error of
\* epoll.wait, with Ok: main ends and the process with it, every socket
\* closed.
Exits(op, index, fd, err) ==
    /\ ep_status' = "exited"
    /\ connections' = <<>>
    /\ epoll' = {}
    /\ ep_events' = <<>>
    /\ ep_open' = {}
    /\ ep_last' = Handled(op, index, fd, err)
    /\ UNCHANGED <<ep_backlog, ep_peer>>

\* epoll.wait returns an error: the while let loop ends.
WaitFail ==
    /\ ep_status = "run"
    /\ ep_events = <<>>
    /\ Exits("wait", 0, 0, "")

\* self.connections.iter().position(|c| c.is_none()), or the index of the
\* slot pushed at the end; indices count from 0.
free_slot(slots) ==
    IF \E i \in 1..Len(slots) : slots[i] = 0
    THEN (CHOOSE i \in 1..Len(slots) :
             slots[i] = 0 /\ \A j \in 1..(i - 1) : slots[j] # 0) - 1
    ELSE Len(slots)

\* self.connections[index] = value, the slot pushed first when index is the
\* length.
slot_set(slots, index, value) ==
    [i \in 1..Max(Len(slots), index + 1) |->
        IF i = index + 1 THEN value ELSE slots[i]]

\* (a close that leaves the slot as it is)
slot_kept(slots, index) == slots

\* self.connections[data as usize] = None.
slot_cleared(slots, index) == slot_set(slots, index, 0)

\* handle_epollin(LISTENER_DATA): accept, take a slot, register, store.
HandleAccept ==
    /\ ep_status = "run"
    /\ ep_events # <<>>
    /\ Head(ep_events) = LISTENER_DATA
    /\ ep_backlog # <<>>
    /\ LET stream == Head(ep_backlog)
           connection_index == free_slot(connections)
       IN  /\ epoll' = epoll \cup
                  {Registration(stream, index_as_u64(connection_index))}
           /\ connections' = slot_set(connections, connection_index, stream)
           /\ ep_open' = ep_open \cup {stream}
           /\ ep_last' = Handled("accept", connection_index, stream, "")
    /\ ep_backlog' = Tail(ep_backlog)
    /\ ep_events' = Tail(ep_events)
    /\ UNCHANGED <<ep_status, ep_peer>>

\* accept, set_nonblocking or epoll.add fails: `?` returns the error.
HandleAcceptFail ==
    /\ ep_status = "run"
    /\ ep_events # <<>>
    /\ Head(ep_events) = LISTENER_DATA
    /\ Exits("accept", 0, 0, "Failed to accept connection")

\* The slot handle_epollin(data) finds: 0 when there is none.
slot_of(slots, data) ==
    IF data_as_usize(data) >= 0 /\ data_as_usize(data) < Len(slots)
    THEN slots[data_as_usize(data) + 1] ELSE 0

\* handle_epollin(data) for a connection whose read returns n > 0 and whose
\* write succeeds.
HandleRequest ==
    /\ ep_status = "run"
    /\ ep_events # <<>>
    /\ Head(ep_events) # LISTENER_DATA
    /\ LET stream == slot_of(connections, Head(ep_events))
       IN  /\ stream # 0
           /\ ep_peer[stream] = "sent"
           /\ ep_peer' = [ep_peer EXCEPT ![stream] = "open"]
           /\ ep_last' = Handled("pong", data_as_usize(Head(ep_events)),
                                 stream, "")
    /\ ep_events' = Tail(ep_events)
    /\ UNCHANGED <<ep_status, connections, epoll, ep_open, ep_backlog>>

\* handle_epollin(data) for a connection whose read returns 0: the socket
\* leaves epoll, the slot is emptied and the Connection dropped.
HandleEof ==
    /\ ep_status = "run"
    /\ ep_events # <<>>
    /\ Head(ep_events) # LISTENER_DATA
    /\ LET stream == slot_of(connections, Head(ep_events))
           index == data_as_usize(Head(ep_events))
       IN  /\ stream # 0
           /\ ep_peer[stream] = "closed"
           /\ epoll' = {r \in epoll : r.fd # stream}
           /\ connections' = slot_cleared(connections, index)
           /\ ep_open' = {s \in ep_open :
                             \E i \in 1..Len(connections) :
                                slot_cleared(connections, index)[i] = s}
           /\ ep_last' = Handled("close", index, stream, "")
    /\ ep_events' = Tail(ep_events)
    /\ UNCHANGED <<ep_status, ep_backlog, ep_peer>>

\* handle_epollin(data) fails: no such slot, the read fails (the peer reset
\* the connection), or the write of the reply fails; `?` returns the error
\* to run, and run returns it to main.
HandleFail ==
    /\ ep_status = "run"
    /\ ep_events # <<>>
    /\ Head(ep_events) # LISTENER_DATA
    /\ LET stream == slot_of(connections, Head(ep_events))
           index == data_as_usize(Head(ep_events))
       IN  \/ /\ stream = 0
              /\ Exits("read", index, stream, "Invalid connection")
           \/ /\ stream # 0
              /\ ep_peer[stream] = "reset"
              /\ Exits("read", index, stream, "Failed to read on connection")
           \/ /\ stream # 0
              /\ ep_peer[stream] = "sent"
              /\ Exits("write", index, stream, "Failed to write on connection")

(* --------------------------- specifications ---------------------------- *)

vars == <<server_vars, fold_vars, byte_vars, epoll_vars>>

Init == ServerInit /\ FoldInit /\ InInit /\ EpollInit

\* The server: connections, dataset, locks, clock.
Next ==
    \/ Tick /\ UNCHANGED <<fold_vars, byte_vars, epoll_vars>>
    \/ \E c \in Conns : Request(c) /\ UNCHANGED <<fold_vars, byte_vars, epoll_vars>>
    \/ \E c \in Conns : ReadFail(c) /\ UNCHANGED <<fold_vars, byte_vars, epoll_vars>>
    \/ \E c \in Conns : Database_read(c) /\ UNCHANGED <<fold_vars, byte_vars, epoll_vars>>
    \/ \E c \in Conns : Database_write(c) /\ UNCHANGED <<fold_vars, byte_vars, epoll_vars>>
    \/ \E c \in Conns : GetLocked(c) /\ UNCHANGED <<fold_vars, byte_vars, epoll_vars>>
    \/ \E c \in Conns : SetExpiry(c) /\ UNCHANGED <<fold_vars, byte_vars, epoll_vars>>
    \/ \E c \in Conns : SetValue(c) /\ UNCHANGED <<fold_vars, byte_vars, epoll_vars>>
    \/ \E c \in Conns : KeysLocked(c) /\ UNCHANGED <<fold_vars, byte_vars, epoll_vars>>
    \/ \E c \in Conns : Config_read(c) /\ UNCHANGED <<fold_vars, byte_vars, epoll_vars>>
    \/ \E c \in Conns : ConfigLocked(c) /\ UNCHANGED <<fold_vars, byte_vars, epoll_vars>>
    \/ \E c \in Conns : Write(c) /\ UNCHANGED <<fold_vars, byte_vars, epoll_vars>>
    \/ \E c \in Conns : WriteFail(c) /\ UNCHANGED <<fold_vars, byte_vars, epoll_vars>>

Spec == Init /\ [][Next]_vars

\* Dispatch on its own, over every spelling.
NextFold ==
    \/ FoldChoose /\ UNCHANGED <<server_vars, byte_vars, epoll_vars>>
    \/ FoldDispatch /\ UNCHANGED <<server_vars, byte_vars, epoll_vars>>

SpecFold == Init /\ [][NextFold]_vars

\* The RESP decoder on its own, over streams cut into reads.
NextResp ==
    \/ RespChoose /\ UNCHANGED <<server_vars, fold_vars, epoll_vars>>
    \/ RespReadValue /\ UNCHANGED <<server_vars, fold_vars, epoll_vars>>
    \/ RespArrayRead /\ UNCHANGED <<server_vars, fold_vars, epoll_vars>>
    \/ RespConsumeRest /\ UNCHANGED <<server_vars, fold_vars, epoll_vars>>

SpecResp == Init /\ [][NextResp]_vars

\* parse_args on its own.
NextArgs ==
    \/ ArgsChoose /\ UNCHANGED <<server_vars, byte_vars, epoll_vars>>
    \/ ArgsParse /\ UNCHANGED <<server_vars, byte_vars, epoll_vars>>

SpecArgs == Init /\ [][NextArgs]_vars

\* The reader primitives on their own, over streams cut into reads.
NextReader ==
    \/ ReaderChoose /\ UNCHANGED <<server_vars, fold_vars, epoll_vars>>
    \/ ReadU8 /\ UNCHANGED <<server_vars, fold_vars, epoll_vars>>
    \/ ReadU16 /\ UNCHANGED <<server_vars, fold_vars, epoll_vars>>
    \/ ReadU32 /\ UNCHANGED <<server_vars, fold_vars, epoll_vars>>
    \/ ReadU64 /\ UNCHANGED <<server_vars, fold_vars, epoll_vars>>
    \/ ReadBytes /\ UNCHANGED <<server_vars, fold_vars, epoll_vars>>
    \/ ReadUntil /\ UNCHANGED <<server_vars, fold_vars, epoll_vars>>

SpecReader == Init /\ [][NextReader]_vars

\* The RDB reader on its own.
NextRdb ==
    \/ RdbChoose /\ UNCHANGED <<server_vars, fold_vars, epoll_vars>>
    \/ RdbReadLength /\ UNCHANGED <<server_vars, fold_vars, epoll_vars>>
    \/ RdbReadString /\ UNCHANGED <<server_vars, fold_vars, epoll_vars>>
    \/ RdbLoad /\ UNCHANGED <<server_vars, fold_vars, epoll_vars>>

SpecRdb == Init /\ [][NextRdb]_vars

\* The epoll server and its peers.
NextEpoll ==
    \/ PeerConnect /\ UNCHANGED <<server_vars, fold_vars, byte_vars>>
    \/ PeerSend /\ UNCHANGED <<server_vars, fold_vars, byte_vars>>
    \/ PeerClose /\ UNCHANGED <<server_vars, fold_vars, byte_vars>>
    \/ PeerReset /\ UNCHANGED <<server_vars, fold_vars, byte_vars>>
    \/ Wait /\ UNCHANGED <<server_vars, fold_vars, byte_vars>>
    \/ WaitFail /\ UNCHANGED <<server_vars, fold_vars, byte_vars>>
    \/ HandleAccept /\ UNCHANGED <<server_vars, fold_vars, byte_vars>>
    \/ HandleAcceptFail /\ UNCHANGED <<server_vars, fold_vars, byte_vars>>
    \/ HandleRequest /\ UNCHANGED <<server_vars, fold_vars, byte_vars>>
    \/ HandleEof /\ UNCHANGED <<server_vars, fold_vars, byte_vars>>
    \/ HandleFail /\ UNCHANGED <<server_vars, fold_vars, byte_vars>>

SpecEpoll == Init /\ [][NextEpoll]_vars

(* ------------------------------ properties ----------------------------- *)

\* The whole reply of the handler that is writing: what is written and what
\* is still to be written.
Reply(c) == out[c] \o wq[c]

\* Connection c's handler h has left its lock and is writing its reply.
Answering(c, h) == pc[c] = "write" /\ handler[c] = h

\* C1: when the last SET committed on a key had no PX, a GET of the key
\* replies with exactly that SET's value as a bulk string, at any time and on
\* any connection, whatever value or expiry the key had before that SET.
C1_SetThenGet ==
    \A c \in Conns :
        (/\ Answering(c, "handle_get")
         /\ h_obs[c].last.some
         /\ ~h_obs[c].last.v.exp.some)
        => Reply(c) = <<BulkString(h_obs[c].last.v.value)>>

\* C1's case: a GET answers with the value of a SET without PX that replaced
\* an entry with an expiry, after time has passed.
C1_Witness ==
    \E c \in Conns :
        /\ Answering(c, "handle_get")
        /\ h_obs[c].last.some
        /\ ~h_obs[c].last.v.exp.some
        /\ h_obs[c].last.v.prev
        /\ h_obs[c].t >= 2
        /\ Reply(c) = <<BulkString(val_w)>>

\* C2: when the last SET committed on a key was SET key value PX t (the name
\* in any letter case) read at time T, a GET of the key before T + t replies
\* with the value and a GET after T + t replies with the null bulk string.
C2_SetPxThenGet ==
    \A c \in Conns :
        (/\ Answering(c, "handle_get")
         /\ h_obs[c].last.some
         /\ h_obs[c].last.v.exp.some)
        => /\ h_obs[c].t < h_obs[c].last.v.exp.v
                => Reply(c) = <<BulkString(h_obs[c].last.v.value)>>
           /\ h_obs[c].t > h_obs[c].last.v.exp.v
                => Reply(c) = <<NullBulkString>>

\* C2's case: after one SET with PX, one connection is answering a GET made
\* before the expiry with the value while the other is answering a GET made
\* after it with the null bulk string.
C2_Witness ==
    \E c1, c2 \in Conns :
        /\ Answering(c1, "handle_get") /\ Answering(c2, "handle_get")
        /\ h_obs[c1].last.some /\ h_obs[c1].last.v.exp.some
        /\ h_obs[c2].last = h_obs[c1].last
        /\ h_obs[c1].t < h_obs[c1].last.v.exp.v
        /\ h_obs[c2].t > h_obs[c2].last.v.exp.v
        /\ Reply(c1) = <<BulkString(val_v)>>
        /\ Reply(c2) = <<NullBulkString>>

\* The entry of data a GET found, as a reply.
StoredReply(c) ==
    IF h_obs[c].val.some THEN <<BulkString(h_obs[c].val.v)>>
                         ELSE <<NullBulkString>>

\* C3 as stated: a GET replies absent whenever an expiry is recorded for the
\* key and now >= expiry, the instant now = expiry included, and with the
\* stored value only when the key has no expiry or now < expiry.
C3_AbsentFromExpiryOn ==
    \A c \in Conns :
        Answering(c, "handle_get")
        => /\ (h_obs[c].exp.some /\ h_obs[c].t >= h_obs[c].exp.v)
                => Reply(c) = <<NullBulkString>>
           /\ (~h_obs[c].exp.some \/ h_obs[c].t < h_obs[c].exp.v)
                => Reply(c) = StoredReply(c)

\* C3 amended: a GET replies absent whenever an expiry is recorded for the
\* key and now > expiry; when the key has no expiry or now <= expiry, the
\* instant now = expiry included, it replies with the stored value.
C3_AbsentAfterExpiry ==
    \A c \in Conns :
        Answering(c, "handle_get")
        => /\ (h_obs[c].exp.some /\ h_obs[c].t > h_obs[c].exp.v)
                => Reply(c) = <<NullBulkString>>
           /\ (~h_obs[c].exp.some \/ h_obs[c].t <= h_obs[c].exp.v)
                => Reply(c) = StoredReply(c)

\* C3's case: a GET made at the very instant of the key's expiry answers
\* with the stored value.
C3_Witness ==
    \E c \in Conns :
        /\ Answering(c, "handle_get")
        /\ h_obs[c].exp.some
        /\ h_obs[c].t = h_obs[c].exp.v
        /\ h_obs[c].val.some
        /\ Reply(c) = <<BulkString(h_obs[c].val.v)>>

\* C4: the reply of KEYS * is an array header whose count is the number of
\* keys data held under the reader lock, then exactly that many bulk
\* strings, every such key once and no other, expired keys included.
C4_KeysReply ==
    \A c \in Conns :
        Answering(c, "handle_keys")
        => LET r == Reply(c)
               ks == h_obs[c].keys
           IN  /\ Len(r) = Cardinality(ks) + 1
               /\ r[1] = ArrayHeader(Cardinality(ks))
               /\ \A i \in 2..Len(r) : r[i].t = "bulk" /\ r[i].s \in ks
               /\ \A k \in ks :
                     Cardinality({i \in 2..Len(r) : r[i] = BulkString(k)}) = 1

\* C4's case: KEYS * lists two keys, one of them with its expiry passed.
C4_Witness ==
    \E c \in Conns :
        /\ Answering(c, "handle_keys")
        /\ Cardinality(h_obs[c].keys) = 2
        /\ h_obs[c].dead # {}
        /\ \A k \in h_obs[c].dead : \E i \in 2..Len(Reply(c)) :
               Reply(c)[i] = BulkString(k)

\* C5: on one connection the i-th reply frame completed belongs to the i-th
\* request read; the driver is back at its read only when the reply of every
\* request read is complete; while a handler runs, exactly the reply of the
\* current request is outstanding; and the reply of a request handled
\* without error is exactly one whole top-level RESP value.
C5_RequestReplyOrder ==
    \A c \in Conns :
        /\ \A i \in 1..Len(served[c]) : served[c][i] = i
        /\ Len(served[c]) <= nreq[c]
        /\ pc[c] = "read" => Len(served[c]) = nreq[c] /\ wq[c] = <<>>
        /\ pc[c] \notin {"read", "closed"} => Len(served[c]) = nreq[c] - 1
        /\ pc[c] = "write"
              => WholeFrames(Reply(c)) /\ CompleteFrames(Reply(c)) = 1

\* C5's case: a connection has read two requests and is back at its read
\* with both replies written in order, a SET having stored a value.
C5_Witness ==
    \E c \in Conns :
        /\ pc[c] = "read"
        /\ nreq[c] = 2
        /\ served[c] = <<1, 2>>
        /\ dataset.data # {}

\* The handler each command of the spec tree leads to.
HandlerOf(req) ==
    CASE req[1] = tok_ping -> "handle_ping"
      [] req[1] = tok_echo -> "handle_echo"
      [] req[1] = tok_get -> "handle_get"
      [] req[1] = tok_set -> "handle_set"
      [] req[1] = tok_keys -> "handle_keys"
      [] req[1] = tok_config -> "handle_config_get"

\* C6: whatever the mix of upper and lower case letters in the command token
\* and in the subcommand token, the request is dispatched without error to
\* the handler of its command, with the same arguments and the same replies
\* as the all-lowercase spelling.
C6_DispatchFoldsCase ==
    f_stage = "done"
    => /\ f_res.d.err = ""
       /\ f_res.d.handler = HandlerOf(f_base)
       /\ f_res.replies # {}
       /\ f_res = Outcome(f_base)

\* C6's case: CONFIG GET spelled with mixed case in both tokens has been
\* dispatched and answered with the stored entry.
C6_Witness ==
    /\ f_stage = "done"
    /\ f_base = <<tok_config, tok_get, tok_dir>>
    /\ f_req[1] # f_base[1] /\ f_req[1] # to_uppercase(f_base[1])
    /\ f_req[2] # f_base[2] /\ f_req[2] # to_uppercase(f_base[2])
    /\ f_res.replies =
          {<<ArrayHeader(2), BulkString(tok_dir), BulkString(tok_data)>>}

\* C7 as stated: when the config holds an entry whose key equals the key of
\* CONFIG GET up to ASCII case, the reply is the array of the key as asked
\* and the stored value.
C7_ConfigGetFoldsCase ==
    \A c \in Conns :
        Answering(c, "handle_config_get")
        => \A p \in config :
              EqIgnoreCase(local[c].key, p[1])
              => Reply(c) = <<ArrayHeader(2), BulkString(local[c].key),
                              BulkString(p[2])>>

\* The errors of the walk, of parse_args and of the handlers' own checks.
CommandErrors ==
    {"Unexpected end of command", "Unknown command", "Not enough arguments",
     "Missing value for named argument", "Unsupported pattern",
     "invalid digit found in string"}

\* C8: reading a request that is a protocol-level command error ends the
\* connection's driver with that error in the same step: nothing is written
\* or queued for the request, no reply frame is counted, no lock is taken
\* and data and expiry of the dataset are as they were.
C8_CommandErrorEndsDriver ==
    [][\A c \in Conns :
          (nreq'[c] = nreq[c] + 1 /\ h_req'[c].bad)
          => /\ pc'[c] = "closed"
             /\ status'[c] \in CommandErrors
             /\ out'[c] = <<>> /\ wq'[c] = <<>>
             /\ served'[c] = served[c]
             /\ dataset' = dataset
             /\ ds_lock' = ds_lock /\ config_lock' = config_lock]_vars

\* C8's case: SET k v PX a has ended a driver, after an earlier SET stored a
\* value under k with an expiry, and the entry is still as that SET left it.
C8_Witness ==
    \E c \in Conns :
        /\ pc[c] = "closed"
        /\ status[c] = "invalid digit found in string"
        /\ h_req[c].bad
        /\ MapHas(dataset.data, key_k) /\ MapGet(dataset.data, key_k) = val_v
        /\ MapHas(dataset.expiry, key_k)

\* C9 as stated: after a miss of the walk the driver goes on with its loop.
C9_MissContinues ==
    \A c \in Conns : h_req[c].miss => pc[c] # "closed"

\* C9 amended: a miss of the walk ends the driver with "Unknown command",
\* and a driver that has ended stays ended: no later request of the
\* connection is read, dispatched or answered.
C9_MissEndsDriver ==
    [][\A c \in Conns :
          /\ (nreq'[c] = nreq[c] + 1 /\ h_req'[c].miss)
                => pc'[c] = "closed" /\ status'[c] = "Unknown command"
          /\ pc[c] = "closed"
                => /\ pc'[c] = "closed" /\ status'[c] = status[c]
                   /\ nreq'[c] = nreq[c] /\ served'[c] = served[c]
                   /\ out'[c] = out[c] /\ wq'[c] = wq[c]
                   /\ handler'[c] = handler[c]]_vars

\* C9's case: a miss of the walk has ended a driver on its first request
\* while requests could still be read, and the other connection has been
\* served.
C9_Witness ==
    \E c, c2 \in Conns :
        /\ pc[c] = "closed"
        /\ h_req[c].miss
        /\ status[c] = "Unknown command"
        /\ nreq[c] = 1
        /\ TotalRequests < MaxReq
        /\ c2 # c /\ nreq[c2] = 1 /\ served[c2] = <<1>>

\* The positions at which a connection's task is suspended: waiting for a
\* request, for a lock, for a write to complete, or ended.
SuspensionPoints ==
    {"read", "get_lock", "set_lock", "keys_lock", "config_lock", "write",
     "closed"}

\* C10: a connection at a suspension point holds neither the dataset lock
\* nor the config lock, and no connection ever holds both.
C10_NoLockAcrossSuspension ==
    \A c \in Conns :
        /\ pc[c] \in SuspensionPoints
              => ~holds(ds_lock, c) /\ ~holds(config_lock, c)
        /\ ~(holds(ds_lock, c) /\ holds(config_lock, c))

\* C10's case: one connection is in the middle of writing the reply of KEYS
\* while the other holds the writer lock of the dataset.
C10_Witness ==
    \E c, c2 \in Conns :
        /\ c # c2
        /\ Answering(c, "handle_keys")
        /\ out[c] # <<>> /\ wq[c] # <<>>
        /\ pc[c2] = "set_value"
        /\ holds(ds_lock, c2)

\* C11: whenever no SET stands between its two statements under the writer
\* lock, every key of expiry is a key of data: on the dataset the snapshot
\* was loaded into and after every command of every connection.
C11_ExpiryWithinData ==
    (\A c \in Conns : pc[c] # "set_value")
    => MapKeys(dataset.expiry) \subseteq MapKeys(dataset.data)

\* C11's case: on the dataset loaded from the snapshot, which holds q with
\* an expiry, a SET with PX has stored k with an expiry as well, and a SET
\* without PX is waiting for the lock.
C11_Witness ==
    /\ MapKeys(dataset.expiry) = {key_k, key_q}
    /\ MapGet(dataset.data, key_q) = val_w
    /\ MapGet(dataset.expiry, key_q) = 1
    /\ \A c \in Conns : pc[c] # "set_value"
    /\ \E c \in Conns : pc[c] = "set_lock"

\* The first frame of the stream is a bulk string with a one-digit length
\* line.
FirstIsBulk ==
    /\ Len(in_frames) >= 1
    /\ Len(in_frames[1].bytes) >= 4
    /\ in_frames[1].bytes[1] = 36
    /\ in_frames[1].bytes[2] \in 48..57
    /\ SubSeq(in_frames[1].bytes, 3, 4) = CRLF

\* C12: for every byte string s, also one that is not valid UTF-8, read_value
\* on the bytes write_bulk_string(s) produces returns String(s) and takes
\* exactly those bytes (the stream arriving frame by frame).
C12_BulkRoundTrip ==
    (in_aligned /\ Len(in_log) >= 1 /\ FirstIsBulk /\ in_frames[1].err = "")
    => /\ in_log[1].err = ""
       /\ in_log[1].v = in_frames[1].v
       /\ in_log[1].used = Len(in_frames[1].bytes)

\* C13: after read_value returned an array of length N, the next N values of
\* the stream are delivered as its elements, each taking the bytes of its
\* frame; None comes after exactly N elements and takes no byte; a read on
\* the stream itself after the array returns the frame after the N elements
\* (the stream arriving frame by frame).
C13_ArrayFraming ==
    (in_aligned /\ Len(in_log) >= 1 /\ in_log[1].err = ""
        /\ in_log[1].v.kind = "Array")
    => \A i \in 2..Len(in_log) :
          LET call == in_log[i]
              N == in_log[1].v.len
          IN  /\ (call.op = "read_value_dyn" /\ ~call.none)
                   => /\ call.at = i
                      /\ i <= N + 1
                      /\ call.err = ""
                      /\ call.v = in_frames[i].v
                      /\ call.used = Len(in_frames[i].bytes)
              /\ (call.op = "read_value_dyn" /\ call.none)
                   => /\ i = N + 2
                      /\ call.used = 0
              /\ call.op = "consume_rest"
                   => /\ call.err = ""
                      /\ call.used =
                            Len(FrameBytes(SubSeq(in_frames, i, N + 1)))
              /\ (call.op = "read_value" /\ call.at <= Len(in_frames))
                   => /\ call.at >= N + 2
                      /\ call.err = ""
                      /\ call.v = in_frames[call.at].v
                      /\ call.used = Len(in_frames[call.at].bytes)

\* An array of 2 delivered its 2 elements, then None, and the read after it
\* returned the frame behind the elements.
C13_Witness ==
    /\ in_aligned
    /\ Len(in_log) = 5
    /\ in_log[1].v = RedisValue_Array(2)
    /\ in_log[4].none
    /\ in_log[5].op = "read_value"
    /\ in_log[5].v = RedisValue_String(<<99>>)

\* C15: every call of the decoder returns the same value or error on the
\* stream as the transport cut it as on the stream in one piece.
C15_ChunkingIndependent ==
    \A i \in 1..Len(in_log) :
        /\ in_log[i].err = in_log[i].ref_err
        /\ in_log[i].v = in_log[i].ref_v

\* C17: a bulk string is decoded by its length: the len bytes after the
\* length line are the payload, CR LF among them included, and the two bytes
\* after them must be CR LF, else the call fails with InvalidData and returns
\* no string (the stream arriving frame by frame).
C17_BulkByLength ==
    (in_aligned /\ Len(in_log) >= 1 /\ FirstIsBulk)
    => LET f == in_frames[1].bytes
           n == f[2] - 48
           payload == SubSeq(f, 5, 4 + n)
           end == SubSeq(f, 5 + n, 6 + n)
       IN  IF end = CRLF
           THEN is_utf8(payload)
                => /\ in_log[1].err = ""
                   /\ in_log[1].v = RedisValue_String(payload)
                   /\ in_log[1].used = n + 6
           ELSE /\ in_log[1].err = "InvalidData"
                /\ in_log[1].v = NoValue

\* A payload CR LF followed by CR CR was refused.
C17_Witness ==
    /\ in_aligned
    /\ Len(in_log) = 1
    /\ in_frames[1] = TornFrame(<<13, 10>>, <<13, 13>>)
    /\ in_log[1].err = "InvalidData"
    /\ in_log[1].v = NoValue

\* The bytes a primitive is to take from the front of the stream, and the
\* value it is to make of them.
Width(call) ==
    CASE call.op = "read_u8" -> 1
      [] call.op = "read_u16" -> 2
      [] call.op = "read_u32" -> 4
      [] call.op = "read_u64" -> 8
      [] call.op = "read_bytes" -> call.arg[1]

ValueOf(call, bytes) ==
    CASE call.op = "read_u8" -> bytes[1]
      [] call.op = "read_u16" -> bytes[1] + 256 * bytes[2]
      [] call.op = "read_u32" -> get_le_words(bytes)
      [] call.op = "read_u64" -> get_le_words(bytes)
      [] call.op = "read_bytes" -> bytes

\* C14: read_until(delim) returns the bytes of the stream up to and including
\* the first delim in it and leaves every byte after it, however the reads
\* cut the stream, a cut between the bytes of delim included; it fails with
\* UnexpectedEof when the stream holds no delim.
C14_ReadUntilFirst ==
    \A i \in 1..Len(in_log) :
        in_log[i].op = "read_until"
        => LET call == in_log[i]
               pos == position(call.rem, call.arg)
               end == pos + Len(call.arg)
           IN  IF pos >= 0
               THEN /\ call.err = ""
                    /\ call.v = SubSeq(call.rem, 1, end)
                    /\ call.left = SubSeq(call.rem, end + 1, Len(call.rem))
               ELSE call.err = "UnexpectedEof"

\* C16: read_u8, read_u16, read_u32, read_u64 and read_bytes(n) return the
\* next 1, 2, 4, 8 and n bytes of the stream in order and leave the bytes
\* after them, or fail with UnexpectedEof when the stream ends before that
\* many bytes; no buffered byte is dropped by a refill.
C16_NoPartialData ==
    \A i \in 1..Len(in_log) :
        in_log[i].op # "read_until"
        => LET call == in_log[i]
               n == Width(call)
           IN  IF Len(call.rem) >= n
               THEN /\ call.err = ""
                    /\ call.v = ValueOf(call, SubSeq(call.rem, 1, n))
                    /\ call.left = SubSeq(call.rem, n + 1, Len(call.rem))
               ELSE call.err = "UnexpectedEof"

\* The bytes a call took.
Taken(call) == Len(call.rem) - Len(call.left)

\* C18: read_length goes by the top two bits of the first byte: 00 gives
\* Normal(low 6 bits) from 1 byte, 01 Normal(low 6 bits << 8 | next byte)
\* from 2 bytes, 10 Normal(the next 4 bytes as a little-endian u32) from 5
\* bytes, 11 Special(low 6 bits) from 1 byte; so the 5 bytes 0x80 and n in
\* little-endian order decode to Normal(n) for every u32 n.
C18_LengthPrefix ==
    \A i \in 1..Len(in_log) :
        (in_log[i].op = "read_length" /\ in_log[i].err = "")
        => LET call == in_log[i]
               first == call.rem[1]
           IN  /\ first \in 0..63
                    => call.v = Normal(U32(first)) /\ Taken(call) = 1
               /\ first \in 64..127
                    => /\ call.v = Normal(U32((first - 64) * 256 + call.rem[2]))
                       /\ Taken(call) = 2
               /\ first \in 128..191
                    => /\ call.v = Normal(<<call.rem[2] + 256 * call.rem[3],
                                            call.rem[4] + 256 * call.rem[5]>>)
                       /\ Taken(call) = 5
               /\ first \in 192..255
                    => call.v = Special(first - 192) /\ Taken(call) = 1
               /\ \A n \in SampleU32 :
                    call.rem = <<128>> \o le_bytes(n) => call.v = Normal(n)

\* The encodings of 2^32 - 1 and of a Special were decoded.
C18_Witness ==
    /\ Len(in_log) = 1
    /\ in_log[1].op = "read_length"
    /\ in_log[1].rem = <<128, 255, 255, 255, 255>>
    /\ in_log[1].v = Normal(<<65535, 65535>>)

\* C19: read_string reads, after a prefix Special(k), 2^k bytes for k in
\* {0, 1, 2} and returns them unchanged, fails with InvalidData for any other
\* k, and after a prefix Normal(n) reads n bytes; it fails with UnexpectedEof
\* when the input ends before that many bytes.
C19_StringByPrefix ==
    \A i \in 1..Len(in_log) :
        in_log[i].op = "read_string"
        => LET call == in_log[i]
               prefix == read_length(Reader(<<>>, <<call.rem>>))
               body == Remaining(prefix.r)
               n == IF prefix.v.kind = "Normal" THEN as_usize(prefix.v.len)
                    ELSE 2 ^ prefix.v.mode
           IN  prefix.err = ""
               => IF prefix.v.kind = "Special" /\ prefix.v.mode \notin {0, 1, 2}
                  THEN call.err = "InvalidData"
                  ELSE IF Len(body) >= n
                  THEN /\ call.err = ""
                       /\ call.v = SubSeq(body, 1, n)
                       /\ call.left = SubSeq(body, n + 1, Len(body))
                  ELSE call.err = "UnexpectedEof"

\* After the prefix Special(2) four bytes were returned and the fifth left.
C19_Witness ==
    /\ Len(in_log) = 1
    /\ in_log[1].op = "read_string"
    /\ in_log[1].rem = <<194, 1, 2, 3, 4, 5>>
    /\ in_log[1].v = <<1, 2, 3, 4>>
    /\ in_log[1].left = <<5>>

\* C20: read_rdb returns datasets, the one the file describes, only for a
\* file that starts with REDIS and 0003 and whose opcodes, up to 0xFF, are
\* 0x00, 0xFA, 0xFB, 0xFC, 0xFD and 0xFE with database Normal(0) and value
\* type 0; for a bad magic, another version, an unknown opcode, another
\* database, another value type or a file that ends before 0xFF it returns an
\* error and no dataset.
C20_LoadOnlyValid ==
    \A i \in 1..Len(in_log) :
        in_log[i].op = "read_rdb"
        => LET call == in_log[i]
               file == in_frames[1]
           IN  /\ file.defect = "" <=> call.err = ""
               /\ file.defect = "" => call.v = <<file.ds>>
               /\ file.defect # "" => call.v = <<>>
               /\ file.defect = "end" <=> call.err = "UnexpectedEof"

\* A file with an unknown opcode behind a key was refused.
C20_Witness ==
    /\ Len(in_log) = 1
    /\ in_log[1].op = "read_rdb"
    /\ in_frames[1].defect = "opcode"
    /\ in_log[1].err = "Invalid RDB file, unknown opcode"
    /\ in_log[1].v = <<>>

\* C21: opcode 0xFC with the u64 m, type byte 0, key and value stores the
\* value under the key and the expiry UNIX_EPOCH + m milliseconds; opcode
\* 0xFD with the u32 s stores the expiry UNIX_EPOCH + s seconds; a file with
\* the 0xFD record of s gives the dataset of the file with the 0xFC record of
\* 1000 * s.
C21_ExpiryOpcodes ==
    \A i \in 1..Len(in_log) :
        in_log[i].op = "read_rdb"
        => LET call == in_log[i]
           IN  /\ \A m \in SampleMillis :
                     call.rem = file_millis(m)
                     => call.err = "" /\ call.v = <<expiring_q_w(m)>>
               /\ \A s \in SampleSecs :
                     call.rem = file_secs(s)
                     => /\ call.err = ""
                        /\ call.v = <<expiring_q_w(1000 * s)>>
                        /\ call.v = read_rdb(<<file_millis(1000 * s)>>).v

\* The 0xFD record of 2 seconds was loaded as an expiry at 2000 ms.
C21_Witness ==
    /\ Len(in_log) = 1
    /\ in_log[1].op = "read_rdb"
    /\ in_log[1].rem = file_secs(2)
    /\ in_log[1].v = <<expiring_q_w(2000)>>

\* The keys whose expiry has passed.
ExpiredKeys == {k \in MapKeys(dataset.expiry) : MapGet(dataset.expiry, k) < now}

\* C22: a SET on any key and a KEYS * remove from data and from expiry every
\* other key whose expiry has passed when they run under their lock.
C22_ExpiredCollected ==
    [][\A c \in Conns :
          (pc[c] \in {"set_value", "keys_locked"} /\ pc'[c] # pc[c])
          => \A k \in ExpiredKeys \ {local[c].key} :
                /\ k \notin MapKeys(dataset'.data)
                /\ k \notin MapKeys(dataset'.expiry)]_vars

\* The handlers of PING, ECHO, GET, KEYS and CONFIG GET.
ReadOnlyHandlers ==
    {"handle_ping", "handle_echo", "handle_get", "handle_keys",
     "handle_config_get"}

\* C23: no step of the handlers of PING, ECHO, GET, KEYS * and CONFIG GET
\* changes data, expiry or config; a GET of a key whose expiry has passed
\* queues the null bulk string and leaves the key in data and in expiry.
C23_ReadOnlyFrame ==
    [][\A c \in Conns :
          (/\ <<pc[c], wq[c], out[c]>>' # <<pc[c], wq[c], out[c]>>
           /\ (handler[c] \in ReadOnlyHandlers
                  \/ handler'[c] \in ReadOnlyHandlers))
          => /\ dataset' = dataset
             /\ config' = config
             /\ (pc[c] = "get_locked" /\ local[c].key \in ExpiredKeys)
                  => /\ wq'[c] = <<NullBulkString>>
                     /\ local[c].key \in MapKeys(dataset'.data)
                     /\ local[c].key \in MapKeys(dataset'.expiry)]_vars

\* A GET answers with the null bulk string for a key past its expiry, and
\* the key is still in data and in expiry.
C23_Witness ==
    \E c \in Conns :
        /\ Answering(c, "handle_get")
        /\ h_obs[c].exp.some
        /\ h_obs[c].t > h_obs[c].exp.v
        /\ Reply(c) = <<NullBulkString>>
        /\ MapHas(dataset.data, local[c].key)
        /\ MapHas(dataset.expiry, local[c].key)

\* The tokens that went into named_args: each name and its values.
RECURSIVE NamedTokens(_)
NamedTokens(named_args) ==
    IF named_args = {} THEN 0
    ELSE LET e == CHOOSE x \in named_args : TRUE
         IN  1 + Len(e[2]) + NamedTokens(named_args \ {e})

\* C24: parse_args fails when fewer than leading_argc tokens remain; else the
\* first leading_argc tokens are the first positional arguments as they
\* are, every named argument found has exactly its count of values, the
\* positional arguments keep their order, and every token is either one
\* positional argument, one name or one value of a name: none is dropped and
\* none is used twice.
C24_ParseArgs ==
    f_stage = "parsed"
    => LET L == f_base.leading_argc
           N == f_base.named_arg_argc
       IN  IF Len(f_req) < L
           THEN f_res.err = "Not enough arguments"
           ELSE f_res.err = ""
                => /\ SubSeq(f_res.args, 1, L) = SubSeq(f_req, 1, L)
                   /\ \A e \in f_res.named_args :
                         MapHas(N, e[1]) /\ Len(e[2]) = MapGet(N, e[1])
                   /\ Len(f_req) = Len(f_res.args) + NamedTokens(f_res.named_args)

\* The expiry recorded for key, if any.
ExpiryOf(key) ==
    IF MapHas(dataset.expiry, key) THEN Some(MapGet(dataset.expiry, key))
                                   ELSE NoneI

\* C25: while a SET stands at or between its two statements it holds the
\* writer lock and no other connection is under the dataset lock; what a GET
\* finds under its lock for a key some SET was committed on are the value
\* and the expiry of the last SET committed on it; and whenever no SET stands
\* between its two statements, every such key has the value and the expiry
\* of that one SET, also after two SETs on the key ran at the same time.
C25_SetAtomic ==
    /\ \A c \in Conns :
          pc[c] \in {"set_expiry", "set_value"}
          => /\ ds_lock.writer = c
             /\ \A c2 \in Conns \ {c} :
                   pc[c2] \notin {"get_locked", "keys_locked", "set_expiry",
                                  "set_value"}
    /\ \A c \in Conns :
          (Answering(c, "handle_get") /\ h_obs[c].last.some)
          => /\ h_obs[c].val = Some(h_obs[c].last.v.value)
             /\ h_obs[c].exp = h_obs[c].last.v.exp
    /\ (\A c \in Conns : pc[c] # "set_value")
          => \A key \in MapKeys(h_last) :
                /\ MapHas(dataset.data, key)
                /\ MapGet(dataset.data, key) = MapGet(h_last, key).value
                /\ ExpiryOf(key) = MapGet(h_last, key).exp

\* A SET stands between its two statements, the expiry of its key replaced
\* and the value not yet, while a GET of the same key waits for the lock.
C25_Witness ==
    \E c, c2 \in Conns :
        /\ c # c2
        /\ pc[c2] = "set_value"
        /\ pc[c] = "get_lock"
        /\ local[c].key = local[c2].key
        /\ MapHas(h_last, local[c2].key)
        /\ ExpiryOf(local[c2].key) # MapGet(h_last, local[c2].key).exp
        /\ MapGet(dataset.data, local[c2].key) # local[c2].value

\* The sockets in the slots.
Occupied == {connections[i] : i \in 1..Len(connections)} \ {0}

\* C26: while the server runs, the listener is registered with u64::MAX and
\* no connection is; every other registration carries the index of a slot
\* that holds its socket, and no two carry the same index; every occupied
\* slot holds a socket of its own, registered with the slot's index; the
\* sockets held open are those in the slots; an accept took the lowest empty
\* slot, or a new one at the end; and after a read of 0 bytes the slot is
\* empty, the socket closed and out of epoll.
C26_SlotsAndEpoll ==
    ep_status = "run"
    => /\ Registration(0, LISTENER_DATA) \in epoll
       /\ \A r \in epoll :
             r.fd # 0 => /\ r.data # LISTENER_DATA
                         /\ slot_of(connections, r.data) = r.fd
       /\ \A r1, r2 \in epoll : r1.data = r2.data => r1 = r2
       /\ \A i \in 1..Len(connections) :
             connections[i] # 0
             => /\ Registration(connections[i], index_as_u64(i - 1)) \in epoll
                /\ \A j \in 1..Len(connections) :
                      j # i => connections[j] # connections[i]
       /\ ep_open = Occupied
       /\ ep_last.op = "accept"
             => /\ \A j \in 1..ep_last.index : ep_last.before[j] # 0
                /\ \/ ep_last.index = Len(ep_last.before)
                   \/ ep_last.before[ep_last.index + 1] = 0
       /\ ep_last.op = "close"
             => /\ connections[ep_last.index + 1] = 0
                /\ ep_last.fd \notin ep_open
                /\ \A r \in epoll : r.fd # ep_last.fd

\* A connection was accepted into the first slot, emptied by a close, while
\* the second slot is occupied.
C26_Witness ==
    /\ ep_status = "run"
    /\ ep_last.op = "accept"
    /\ ep_last.index = 0
    /\ Len(ep_last.before) = 2
    /\ ep_last.before[1] = 0
    /\ ep_last.before[2] # 0
    /\ connections[1] = ep_last.fd

\* C27: after a read or a write on a client socket failed, the server still
\* runs, the listener is still registered and the other connections are
\* still in their slots.
C27_IoErrorEndsConnectionOnly ==
    ep_last.err \in {"Failed to read on connection",
                     "Failed to write on connection"}
    => /\ ep_status = "run"
       /\ Registration(0, LISTENER_DATA) \in epoll
       /\ \A i \in 1..Len(ep_last.before) :
             (i # ep_last.index + 1 /\ ep_last.before[i] # 0)
             => /\ i <= Len(connections)
                /\ connections[i] = ep_last.before[i]

====
